---- MODULE Spec2Model ----
(***************************************************************************)
(* A model of mydocx: the LCS sequence matcher (diff/matcher.go), the      *)
(* revision-aware text extractor and the streaming paragraph rewriter.     *)
(***************************************************************************)
EXTENDS Integers, Sequences, FiniteSets, TLC

(***************************************************************************)
(* Bounds of the model.                                                    *)
(***************************************************************************)
\* longest token sequence handed to the matcher
MaxLen == 3
\* number of distinct tokens in the matcher's alphabet
NumTok == 2
\* number of GetOpCodes calls on one Matcher instance
MaxCalls == 3
\* text-bearing nodes (or empty runs) in the one paragraph of a revision-rich
\* container
MaxNodes == 2
\* paragraphs in a container of plain paragraphs
MaxParas == 2
\* longest list a replacer returns
MaxReplies == 3
\* longest paragraph text drawn over the whole alphabet of the diff
MaxText == 3
\* paragraphs per container in the mappings handed to Diff
DiffParas == 2
\* longest template, in items, of a paragraph handed to the template replacer
MaxItems == 2

VARIABLES
  a,          \* Matcher.a
  b,          \* Matcher.b
  opcodes,    \* Matcher.opcodes (the cached list)
  computed,   \* Matcher.computed
  ret,        \* the list the last GetOpCodes call returned
  calls,      \* number of GetOpCodes calls made so far
  walk,       \* the operations traceback appended, in that order (history)
  runs        \* number of runs of computeOpCodes so far (history)

mvars == <<a, b, opcodes, computed, ret, calls, walk, runs>>

VARIABLES
  input,      \* the bytes of the container handed to the extractor or rewriter
  accepted,   \* what extraction in ACCEPTED mode returned for the container
  original    \* what extraction in ORIGINAL mode returned for the container

xvars == <<input, accepted, original>>

VARIABLES
  container,     \* custDecoder.container, the name of the container
  dec,           \* custDecoder.dec, the decoder over input
  res,           \* custDecoder.res, the segments of the result
  lastSaved,     \* custDecoder.lastSaved
  cderr,         \* custDecoder.err
  rcontent,      \* custDecoder.rcontent
  curPara,       \* custDecoder.curPara (an index into res, from 0 as in Go)
  firstRunText,  \* custDecoder.firstRunText (an index into res, from 0)
  pc,            \* the function whose loop is running
  paras,         \* the argument of the running call of insert
  archive,       \* what processContent wrote to the zip writer
  perr,          \* what processContent returned
  npara,         \* paragraphs entered so far (history)
  log            \* the replacer's invocations so far (history)

cdvars == <<dec, res, lastSaved, cderr, rcontent, curPara, firstRunText>>
rvars == <<container, cdvars, pc, paras, archive, perr, npara, log>>

VARIABLES
  origMap,     \* Diff's argument original: container name -> paragraph strings
  accMap,      \* Diff's argument accepted
  diffResult,  \* the DiffResult Diff returned
  trace,       \* per container, what diffContainer computed (history)
  report       \* what PrettyPrint returned

dvars == <<origMap, accMap, diffResult, trace, report>>

VARIABLES
  VERBOSE,                 \* the package variable VERBOSE
  REMOVE_EMPTY_PARAGRAPH,  \* the package variable REMOVE_EMPTY_PARAGRAPH
  atStart,                 \* the two switches when the call started (history)
  tplPara,                 \* the paragraph handed to the template replacer
  tplRet,                  \* what the template replacer returned
  joinCalls                \* the calls of the function join so far (history)

tvars == <<VERBOSE, REMOVE_EMPTY_PARAGRAPH, atStart, tplPara, tplRet, joinCalls>>

vars == <<mvars, xvars, rvars, dvars, tvars>>

\* the value of a result no call has produced yet
NotRun == [res |-> <<>>, err |-> "notrun"]

(***************************************************************************)
(* Helpers on sequences.                                                   *)
(***************************************************************************)
SeqsUpTo(S, n) == UNION {[1..k -> S] : k \in 0..n}

RECURSIVE Reverse(_)
Reverse(s) == IF s = <<>> THEN <<>> ELSE Reverse(Tail(s)) \o <<Head(s)>>

(***************************************************************************)
(* diff/matcher.go                                                         *)
(***************************************************************************)
\* the opcode with the ranges of a and of b exchanged
opCodeExchanged(tag, i1, i2, j1, j2) ==
  [Tag |-> tag, I1 |-> j1, I2 |-> j2, J1 |-> i1, J2 |-> i2]

OpCode(tag, i1, i2, j1, j2) == [Tag |-> tag, I1 |-> i1, I2 |-> i2, J1 |-> j1, J2 |-> j2]

\* the cell that keeps the smaller neighbour instead of the larger one
cellMin(same, diag, up, left) ==
  IF same THEN diag + 1 ELSE IF up < left THEN up ELSE left

\* the body of the two loops that fill the table: the value of dp[i][j] from
\* dp[i-1][j-1] (diag), dp[i-1][j] (up) and dp[i][j-1] (left)
cell(same, diag, up, left) ==
  IF same THEN diag + 1 ELSE IF up > left THEN up ELSE left

\* the inner loop, for j := 1; j <= lenB: cur holds dp[i][0..j-1] and prev
\* the row dp[i-1]; Go indexes from 0, so Go's a[i-1] is sa[i] here and
\* dp[i][j] is the (j+1)-th element of row i
RECURSIVE fillRow(_, _, _, _, _)
fillRow(sa, sb, i, prev, cur) ==
  LET j == Len(cur) IN
  IF j > Len(sb) THEN cur
  ELSE fillRow(sa, sb, i, prev,
               Append(cur, cell(sa[i] = sb[j], prev[j], prev[j + 1], cur[j])))

\* the outer loop, for i := 1; i <= lenA: rows holds the rows 0..i-1
RECURSIVE fillRows(_, _, _)
fillRows(sa, sb, rows) ==
  LET i == Len(rows) IN
  IF i > Len(sa) THEN rows
  ELSE fillRows(sa, sb, Append(rows, fillRow(sa, sb, i, rows[i], <<0>>)))

\* dp[i][j] = length of the LCS of a[0:i] and b[0:j]
dpTable(sa, sb) ==
  LET rows == fillRows(sa, sb, <<[j \in 1..(Len(sb) + 1) |-> 0]>>)
  IN [i \in 0..Len(sa), j \in 0..Len(sb) |-> rows[i + 1][j + 1]]

\* the Equal branch that walks one step of the diagonal only
equalStep(sa, sb, i, j) == <<i - 1, j - 1>>

\* the inner loop of the Equal branch: walk the diagonal while tokens match
RECURSIVE equalLoop(_, _, _, _)
equalLoop(sa, sb, i, j) ==
  IF i > 0 /\ j > 0 /\ sa[i] = sb[j] THEN equalLoop(sa, sb, i-1, j-1) ELSE <<i, j>>

\* the guard that deletes whenever a token of a is left
deleteFirst(dp, i, j) == i > 0

\* the guard shared by the Delete branch and its inner loop
deleteCond(dp, i, j) == i > 0 /\ (j = 0 \/ dp[i-1, j] >= dp[i, j-1])

\* the inner loop of the Delete branch
RECURSIVE deleteLoop(_, _, _, _, _)
deleteLoop(sa, sb, dp, i, j) ==
  IF deleteCond(dp, i, j)
  THEN IF i > 0 /\ j > 0 /\ sa[i] = sb[j] THEN i
       ELSE deleteLoop(sa, sb, dp, i-1, j)
  ELSE i

\* the inner loop of the Insert branch
RECURSIVE insertLoop(_, _, _, _, _)
insertLoop(sa, sb, dp, i, j) ==
  IF j > 0 /\ (i = 0 \/ dp[i-1, j] < dp[i, j-1])
  THEN IF i > 0 /\ j > 0 /\ sa[i] = sb[j] THEN j
       ELSE insertLoop(sa, sb, dp, i, j-1)
  ELSE j

\* the outer loop of traceback: the operations in the order they are appended
RECURSIVE traceLoop(_, _, _, _, _, _)
traceLoop(sa, sb, dp, i, j, operations) ==
  IF ~(i > 0 \/ j > 0) THEN operations
  ELSE IF i > 0 /\ j > 0 /\ sa[i] = sb[j]
  THEN LET e == equalLoop(sa, sb, i, j)
       IN traceLoop(sa, sb, dp, e[1], e[2],
                    Append(operations, OpCode("e", e[1], i, e[2], j)))
  ELSE IF deleteCond(dp, i, j)
  THEN LET i1 == deleteLoop(sa, sb, dp, i, j)
       IN traceLoop(sa, sb, dp, i1, j,
                    Append(operations, OpCode("d", i1, i, j, j)))
  ELSE LET j1 == insertLoop(sa, sb, dp, i, j)
       IN traceLoop(sa, sb, dp, i, j1,
                    Append(operations, OpCode("i", i, i, j1, j)))

RECURSIVE mergeLoop(_, _, _)
mergeLoop(operations, i, result) ==
  IF ~(i <= Len(operations)) THEN result
  ELSE LET current == operations[i]
           hasNext == i + 1 <= Len(operations)
           next    == operations[i+1]
       IN IF current.Tag = "i" /\ hasNext /\ next.Tag = "d"
             /\ current.I1 = next.I1 /\ current.J2 = next.J1
          THEN mergeLoop(operations, i + 2,
                 Append(result, OpCode("r", next.I1, next.I2, current.J1, current.J2)))
          ELSE IF current.Tag = "d" /\ hasNext /\ next.Tag = "i"
             /\ current.I2 = next.I1 /\ current.J1 = next.J1
          THEN mergeLoop(operations, i + 2,
                 Append(result, OpCode("r", current.I1, current.I2, next.J1, next.J2)))
          ELSE mergeLoop(operations, i + 1, Append(result, current))

\* the operations left as traceback built them, no pair merged
mergeNothing(operations) == operations

mergeReplaceOperations(operations) ==
  IF Len(operations) <= 1 THEN operations ELSE mergeLoop(operations, 1, <<>>)

\* traceback without the reversal of the operations built backwards
tracebackNoReverse(sa, sb, dp) ==
  mergeReplaceOperations(traceLoop(sa, sb, dp, Len(sa), Len(sb), <<>>))

traceback(sa, sb, dp) ==
  mergeReplaceOperations(Reverse(traceLoop(sa, sb, dp, Len(sa), Len(sb), <<>>)))

\* the comparison that takes two sequences for equal when one is empty
computeNothingOnEmpty(sa, sb) ==
  IF Len(sa) = 0 \/ Len(sb) = 0 THEN <<>>
  ELSE traceback(sa, sb, dpTable(sa, sb))

computeOpCodes(sa, sb) ==
  IF Len(sa) = 0 /\ Len(sb) = 0 THEN <<>>
  ELSE IF Len(sa) = 0 THEN <<OpCode("i", 0, 0, 0, Len(sb))>>
  ELSE IF Len(sb) = 0 THEN <<OpCode("d", 0, Len(sa), 0, 0)>>
  ELSE traceback(sa, sb, dpTable(sa, sb))

\* the operations the loop of traceback appends during computeOpCodes, none
\* when a sequence is empty and traceback is not called
appended(sa, sb) ==
  IF Len(sa) = 0 \/ Len(sb) = 0 THEN <<>>
  ELSE traceLoop(sa, sb, dpTable(sa, sb), Len(sa), Len(sb), <<>>)

\* the token sequences of TestLongestCommonSubsequence, A..H,R numbered 1..9
ExampleA == <<1, 2, 3, 4, 7, 8>>
ExampleB == <<1, 5, 4, 6, 8, 9>>

\* no container is being read
ExtractorIdle == input = <<>> /\ accepted = NotRun /\ original = NotRun

\* nothing written, nothing returned
NotWritten == [written |-> FALSE, name |-> "", bytes |-> <<>>]
NoReturn == [returned |-> FALSE, failed |-> FALSE, name |-> "", cause |-> "nil"]

\* no container is being rewritten
RewriterIdle ==
  /\ container = "" /\ dec = [off |-> 0, stk |-> <<>>, err |-> "nil"] /\ res = <<>>
  /\ lastSaved = -1 /\ cderr = "nil" /\ rcontent = <<>> /\ curPara = -1
  /\ firstRunText = -1 /\ pc = "idle" /\ paras = <<>> /\ archive = NotWritten
  /\ perr = NoReturn /\ npara = 0 /\ log = <<>>

\* the map without entries
EmptyMap == [n \in {} |-> <<>>]

\* the values of a DiffResult not returned yet and of a report not printed yet
NoResult == [returned |-> FALSE]
NoReport == [printed |-> FALSE]

\* no comparison of mappings is running
DiffIdle ==
  /\ origMap = EmptyMap /\ accMap = EmptyMap /\ diffResult = NoResult
  /\ trace = EmptyMap /\ report = NoReport

\* what the template replacer has returned before it is called
NotReplaced == [returned |-> FALSE]

\* the switches as version.go declares them, and no template being executed
TplIdle ==
  /\ VERBOSE = FALSE /\ REMOVE_EMPTY_PARAGRAPH = TRUE
  /\ atStart = [VERBOSE |-> FALSE, REMOVE_EMPTY_PARAGRAPH |-> TRUE]
  /\ tplPara = <<>> /\ tplRet = NotReplaced /\ joinCalls = <<>>

\* NewMatcher(a, b)
NewMatcher ==
  /\ ExtractorIdle
  /\ RewriterIdle
  /\ DiffIdle
  /\ TplIdle
  /\ \/ /\ a \in SeqsUpTo(1..NumTok, MaxLen)
        /\ b \in SeqsUpTo(1..NumTok, MaxLen)
     \/ /\ a = ExampleA
        /\ b = ExampleB
  /\ opcodes = <<>>
  /\ computed = FALSE
  /\ ret = <<>>
  /\ calls = 0
  /\ walk = <<>>
  /\ runs = 0

\* GetOpCodes, first call: compute and cache
GetOpCodesCompute ==
  /\ calls < MaxCalls
  /\ ~computed
  /\ opcodes' = computeOpCodes(a, b)
  /\ computed' = TRUE
  /\ ret' = opcodes'
  /\ calls' = calls + 1
  /\ walk' = appended(a, b)
  /\ runs' = runs + 1
  /\ UNCHANGED <<a, b, xvars, rvars, dvars, tvars>>

\* a GetOpCodes that runs the comparison on every call
GetOpCodesAgain ==
  /\ calls < MaxCalls
  /\ computed
  /\ opcodes' = computeOpCodes(a, b)
  /\ ret' = opcodes'
  /\ calls' = calls + 1
  /\ walk' = appended(a, b)
  /\ runs' = runs + 1
  /\ UNCHANGED <<a, b, computed, xvars, rvars, dvars, tvars>>

\* GetOpCodes, later calls: return the cached list
GetOpCodesCached ==
  /\ calls < MaxCalls
  /\ computed
  /\ ret' = opcodes
  /\ calls' = calls + 1
  /\ UNCHANGED <<a, b, opcodes, computed, walk, runs, xvars, rvars, dvars, tvars>>

MatcherNext == GetOpCodesCompute \/ GetOpCodesCached

MatcherSpec == NewMatcher /\ [][MatcherNext]_vars

(***************************************************************************)
(* Properties of the matcher.                                              *)
(***************************************************************************)
RECURSIVE SumEqual(_)
SumEqual(ops) ==
  IF ops = <<>> THEN 0
  ELSE (IF Head(ops).Tag = "e" THEN Head(ops).I2 - Head(ops).I1 ELSE 0) + SumEqual(Tail(ops))

RECURSIVE IsSubseq(_, _)
IsSubseq(s, t) ==
  IF s = <<>> THEN TRUE
  ELSE IF t = <<>> THEN FALSE
  ELSE IF Head(s) = Head(t) THEN IsSubseq(Tail(s), Tail(t))
  ELSE IsSubseq(s, Tail(t))

RECURSIVE Pick(_, _, _)
Pick(s, S, i) ==
  IF i > Len(s) THEN <<>>
  ELSE (IF i \in S THEN <<s[i]>> ELSE <<>>) \o Pick(s, S, i + 1)

\* the length of a longest common subsequence, by enumeration of the
\* subsequences of sa
LCSLength(sa, sb) ==
  LET common == {S \in SUBSET (1..Len(sa)) : IsSubseq(Pick(sa, S, 1), sb)}
  IN CHOOSE n \in 0..Len(sa) :
       /\ \E S \in common : Cardinality(S) = n
       /\ \A S \in common : Cardinality(S) <= n

\* C1: the opcodes GetOpCodes returns, read in order, partition both
\* sequences: the first starts at (0,0), each later one starts where the
\* previous one ended, the last ends at (len(a),len(b)), and no range runs
\* backwards.
C1_Partition ==
  computed =>
    /\ (ret = <<>> => Len(a) = 0 /\ Len(b) = 0)
    /\ ret # <<>> =>
         /\ ret[1].I1 = 0 /\ ret[1].J1 = 0
         /\ ret[Len(ret)].I2 = Len(a) /\ ret[Len(ret)].J2 = Len(b)
    /\ \A k \in 1..Len(ret) : ret[k].I1 <= ret[k].I2 /\ ret[k].J1 <= ret[k].J2
    /\ \A k \in 2..Len(ret) :
         ret[k].I1 = ret[k-1].I2 /\ ret[k].J1 = ret[k-1].J2

\* a comparison whose result has three opcodes, one of them a merged Replace
C1_Witness ==
  /\ computed
  /\ Len(ret) >= 3
  /\ \E k \in 1..Len(ret) : ret[k].Tag = "r"

\* C2: the total length of the Equal opcodes equals the length of a longest
\* common subsequence of a and b.
C2_EqualIsLCS ==
  computed => SumEqual(ret) = LCSLength(a, b)

\* the comparison of TestLongestCommonSubsequence, whose Equal total is 3
C2_Witness ==
  /\ computed
  /\ a = ExampleA /\ b = ExampleB
  /\ SumEqual(ret) = 3

(***************************************************************************)
(* Container bytes and the encoding/xml decoder.                           *)
(*                                                                         *)
(* A container is a sequence of units.  A start tag or an end tag of an    *)
(* element of the wordprocessingml namespace is one unit; character data   *)
(* is one unit per byte, so that "<" in a text is the four units & l t ;   *)
(* and input offsets count units.                                          *)
(***************************************************************************)
S(n)  == [k |-> "S", n |-> n]
E(n)  == [k |-> "E", n |-> n]
C(ch) == [k |-> "C", n |-> ch]
\* a byte that is no markup the decoder accepts
BAD   == [k |-> "X", n |-> "?"]

\* the characters of the texts of the model: letters, the three characters
\* of markup, and CTL, a control character outside the XML character range
CTL == "\\x01"
\* U+FFFD, the replacement character
FFFD == "\\uFFFD"
Chars == {"a", "b", "c", "x", "y", "<", ">", "&", CTL}

\* xml.EscapeText on one character, as bytes: the markup characters become
\* entities, a character outside the XML character range becomes U+FFFD
escapeChar(ch) ==
  CASE ch = "<" -> <<"&", "l", "t", ";">>
    [] ch = ">" -> <<"&", "g", "t", ";">>
    [] ch = "&" -> <<"&", "a", "m", "p", ";">>
    [] ch = CTL -> <<FFFD>>
    [] OTHER    -> <<ch>>

RECURSIVE escapeBytes(_)
escapeBytes(s) == IF s = <<>> THEN <<>> ELSE escapeChar(Head(s)) \o escapeBytes(Tail(s))

RECURSIVE asUnits(_)
asUnits(bs) == IF bs = <<>> THEN <<>> ELSE <<C(Head(bs))>> \o asUnits(Tail(bs))

\* the text written as it is, without escaping
xmlEscapeRaw(source) == asUnits(source)

\* xmlEscape: the text as character data units
xmlEscape(source) == asUnits(escapeBytes(source))

\* bs starts with the bytes of pre
StartsWith(bs, pre) == Len(bs) >= Len(pre) /\ SubSeq(bs, 1, Len(pre)) = pre

\* the decoder's reading of character data bytes: entities are resolved; a
\* bare "<", a "&" that starts no known entity and a character outside the
\* XML character range are syntax errors
RECURSIVE unescape(_)
unescape(bs) ==
  IF bs = <<>> THEN [ok |-> TRUE, s |-> <<>>]
  ELSE IF Head(bs) = "&"
  THEN LET ents == {ch \in {"<", ">", "&"} : StartsWith(bs, escapeChar(ch))}
       IN IF ents = {} THEN [ok |-> FALSE, s |-> <<>>]
          ELSE LET ch == CHOOSE x \in ents : TRUE
                   r  == unescape(SubSeq(bs, Len(escapeChar(ch)) + 1, Len(bs)))
               IN [ok |-> r.ok, s |-> <<ch>> \o r.s]
  ELSE IF Head(bs) \in {"<", CTL} THEN [ok |-> FALSE, s |-> <<>>]
  ELSE LET r == unescape(Tail(bs))
       IN [ok |-> r.ok, s |-> <<Head(bs)>> \o r.s]

\* the number of consecutive character units of bs from offset off on
RECURSIVE charRun(_, _)
charRun(bs, off) ==
  IF off < Len(bs) /\ bs[off + 1].k = "C" THEN 1 + charRun(bs, off + 1) ELSE 0

RECURSIVE unitNames(_)
unitNames(us) == IF us = <<>> THEN <<>> ELSE <<Head(us).n>> \o unitNames(Tail(us))

\* xml.NewDecoder: off is InputOffset, stk the open elements (innermost
\* last), err the error the decoder is stuck in
NewDecoder == [off |-> 0, stk |-> <<>>, err |-> "nil"]

NoToken == [k |-> "none"]

\* Decoder.Token: the next token and the decoder after it.  An error is
\* returned again by every later call.
Token(bs, d) ==
  IF d.err # "nil" THEN [tok |-> NoToken, d |-> d]
  ELSE IF d.off >= Len(bs)
  THEN [tok |-> NoToken,
        d |-> [d EXCEPT !.err = IF d.stk = <<>> THEN "EOF" ELSE "syntax"]]
  ELSE LET u == bs[d.off + 1] IN
    CASE u.k = "S" ->
           [tok |-> u, d |-> [d EXCEPT !.off = d.off + 1, !.stk = Append(d.stk, u.n)]]
      [] u.k = "E" ->
           IF d.stk # <<>> /\ d.stk[Len(d.stk)] = u.n
           THEN [tok |-> u,
                 d |-> [d EXCEPT !.off = d.off + 1,
                                 !.stk = SubSeq(d.stk, 1, Len(d.stk) - 1)]]
           ELSE [tok |-> NoToken, d |-> [d EXCEPT !.err = "syntax"]]
      [] u.k = "C" ->
           LET n == charRun(bs, d.off)
               r == unescape(unitNames(SubSeq(bs, d.off + 1, d.off + n)))
           IN IF r.ok
              THEN [tok |-> [k |-> "C", s |-> r.s], d |-> [d EXCEPT !.off = d.off + n]]
              ELSE [tok |-> NoToken, d |-> [d EXCEPT !.err = "syntax"]]
      [] OTHER -> [tok |-> NoToken, d |-> [d EXCEPT !.err = "syntax"]]

isStart(t, n) == t.k = "S" /\ t.n = n
isEnd(t, n)   == t.k = "E" /\ t.n = n

(***************************************************************************)
(* The extractor, ACCEPTED reading: extractParagraphs, extractRuns,        *)
(* extractText.  Each function is its loop, one token per iteration; a     *)
(* result carries the decoder as the function leaves it.                   *)
(***************************************************************************)

\* Every loop below is written as the call of Token and the switch on what
\* it returned: r is the pair of the token and the decoder after it.

\* the loop that skips to the end tag of element n (or to an error)
RECURSIVE skipTo(_, _, _)
skipToSwitch(bs, r, n) ==
  IF r.d.err # "nil" THEN r.d
  ELSE IF isEnd(r.tok, n) THEN r.d
  ELSE skipTo(bs, r.d, n)

skipTo(bs, d, n) == skipToSwitch(bs, Token(bs, d), n)

\* the token read right after a <t> (or <delText>) start tag: its text when
\* it is character data, nothing otherwise; the token is consumed either way
textOf(c) ==
  IF c.d.err # "nil" THEN [s |-> <<>>, d |-> c.d]
  ELSE IF c.tok.k = "C" THEN [s |-> c.tok.s, d |-> c.d]
  ELSE [s |-> <<>>, d |-> c.d]

textAfter(bs, d) == textOf(Token(bs, d))

RECURSIVE extractTextLoop(_, _, _, _)
extractTextSwitch(bs, r, tt, inDeletion) ==
  IF r.d.err # "nil" THEN [tt |-> tt, d |-> r.d]
  ELSE IF isStart(r.tok, "del") THEN extractTextLoop(bs, r.d, tt, TRUE)
  ELSE IF isStart(r.tok, "t") /\ ~inDeletion
  THEN LET c == textAfter(bs, r.d)
       IN extractTextLoop(bs, c.d, tt \o c.s, inDeletion)
  ELSE IF isStart(r.tok, "delText")
  THEN extractTextLoop(bs, skipTo(bs, r.d, "delText"), tt, inDeletion)
  ELSE IF isEnd(r.tok, "del") THEN extractTextLoop(bs, r.d, tt, FALSE)
  ELSE IF isEnd(r.tok, "r") THEN [tt |-> tt, d |-> r.d]
  ELSE extractTextLoop(bs, r.d, tt, inDeletion)

extractTextLoop(bs, d, tt, inDeletion) ==
  extractTextSwitch(bs, Token(bs, d), tt, inDeletion)

extractText(bs, d) == extractTextLoop(bs, d, <<>>, FALSE)

\* extractRuns.  The loop declares its own err (tok, err := dec.Token()), so
\* the err the function returns is its named result, which nothing assigns.
RECURSIVE extractRunsLoop(_, _, _)
extractRunsSwitch(bs, r, tt) ==
  IF r.d.err # "nil" THEN [tt |-> tt, d |-> r.d, err |-> "nil"]
  ELSE IF isStart(r.tok, "r")
  THEN LET x == extractText(bs, r.d)
       IN extractRunsLoop(bs, x.d, tt \o x.tt)
  ELSE IF isEnd(r.tok, "p") THEN [tt |-> tt, d |-> r.d, err |-> "nil"]
  ELSE extractRunsLoop(bs, r.d, tt)

extractRunsLoop(bs, d, tt) == extractRunsSwitch(bs, Token(bs, d), tt)

extractRuns(bs, d) == extractRunsLoop(bs, d, <<>>)

\* extractParagraphs: paragraphs is the list built so far (res in the source);
\* the result is the pair the function returns
RECURSIVE extractParagraphsLoop(_, _, _)
\* what follows the call of extractRuns, x being what it returned
extractParagraphsAppend(bs, x, paragraphs) ==
  IF x.err = "EOF" THEN [res |-> paragraphs, err |-> "nil"]
  ELSE IF x.err # "nil" THEN [res |-> <<>>, err |-> x.err]
  ELSE extractParagraphsLoop(bs, x.d, Append(paragraphs, x.tt))

extractParagraphsSwitch(bs, r, paragraphs) ==
  IF r.d.err # "nil" THEN [res |-> paragraphs, err |-> "nil"]
  ELSE IF isStart(r.tok, "p")
  THEN extractParagraphsAppend(bs, extractRuns(bs, r.d), paragraphs)
  ELSE extractParagraphsLoop(bs, r.d, paragraphs)

extractParagraphsLoop(bs, d, paragraphs) ==
  extractParagraphsSwitch(bs, Token(bs, d), paragraphs)

extractParagraphs(bs) == extractParagraphsLoop(bs, NewDecoder, <<>>)

(***************************************************************************)
(* The extractor, ORIGINAL reading.                                        *)
(***************************************************************************)
RECURSIVE extractOriginalTextFromRunLoop(_, _, _, _)
extractOriginalTextFromRunSwitch(bs, r, tt, inInsertion) ==
  IF r.d.err # "nil" THEN [tt |-> tt, d |-> r.d]
  ELSE IF isStart(r.tok, "ins")
  THEN extractOriginalTextFromRunLoop(bs, skipTo(bs, r.d, "ins"), tt, TRUE)
  ELSE IF isStart(r.tok, "t") /\ ~inInsertion
  THEN LET c == textAfter(bs, r.d)
       IN extractOriginalTextFromRunLoop(bs, c.d, tt \o c.s, inInsertion)
  ELSE IF isStart(r.tok, "delText")
  THEN LET c == textAfter(bs, r.d)
       IN extractOriginalTextFromRunLoop(bs, c.d, tt \o c.s, inInsertion)
  ELSE IF isEnd(r.tok, "r") THEN [tt |-> tt, d |-> r.d]
  ELSE extractOriginalTextFromRunLoop(bs, r.d, tt, inInsertion)

extractOriginalTextFromRunLoop(bs, d, tt, inInsertion) ==
  extractOriginalTextFromRunSwitch(bs, Token(bs, d), tt, inInsertion)

extractOriginalTextFromRun(bs, d) == extractOriginalTextFromRunLoop(bs, d, <<>>, FALSE)

RECURSIVE extractOriginalTextFromDeletionLoop(_, _, _)
extractOriginalTextFromDeletionSwitch(bs, r, tt) ==
  IF r.d.err # "nil" THEN [tt |-> tt, d |-> r.d]
  ELSE IF isStart(r.tok, "r")
  THEN LET x == extractOriginalTextFromRun(bs, r.d)
       IN extractOriginalTextFromDeletionLoop(bs, x.d, tt \o x.tt)
  ELSE IF isEnd(r.tok, "del") THEN [tt |-> tt, d |-> r.d]
  ELSE extractOriginalTextFromDeletionLoop(bs, r.d, tt)

extractOriginalTextFromDeletionLoop(bs, d, tt) ==
  extractOriginalTextFromDeletionSwitch(bs, Token(bs, d), tt)

extractOriginalTextFromDeletion(bs, d) == extractOriginalTextFromDeletionLoop(bs, d, <<>>)

\* the reading of pPr that answers true when it met an insertion marker
RECURSIVE detectInsertionLoop(_, _, _)
detectInsertionSwitch(bs, r, found) ==
  IF r.d.err # "nil" THEN [ins |-> found, d |-> r.d]
  ELSE IF isEnd(r.tok, "pPr") THEN [ins |-> found, d |-> r.d]
  ELSE detectInsertionLoop(bs, r.d, found \/ isStart(r.tok, "ins"))

detectInsertionLoop(bs, d, found) == detectInsertionSwitch(bs, Token(bs, d), found)

detectInsertion(bs, d) == detectInsertionLoop(bs, d, FALSE)

\* checkParagraphPropertiesForInsertion: reads to the end of pPr and answers
\* false whatever it met
RECURSIVE checkParagraphPropertiesLoop(_, _)
checkParagraphPropertiesSwitch(bs, r) ==
  IF r.d.err # "nil" THEN [ins |-> FALSE, d |-> r.d]
  ELSE IF isEnd(r.tok, "pPr") THEN [ins |-> FALSE, d |-> r.d]
  ELSE checkParagraphPropertiesLoop(bs, r.d)

checkParagraphPropertiesLoop(bs, d) == checkParagraphPropertiesSwitch(bs, Token(bs, d))

checkParagraphPropertiesForInsertion(bs, d) ==
  checkParagraphPropertiesLoop(bs, d)

RECURSIVE extractOriginalRunsFromParagraphLoop(_, _, _, _)
extractOriginalRunsFromParagraphSwitch(bs, r, tt, isInsertedParagraph) ==
  IF r.d.err # "nil"
  THEN [tt |-> tt, ins |-> isInsertedParagraph, d |-> r.d, err |-> "nil"]
  ELSE IF isStart(r.tok, "pPr")
  THEN LET x == checkParagraphPropertiesForInsertion(bs, r.d)
       IN extractOriginalRunsFromParagraphLoop(bs, x.d, tt, x.ins)
  ELSE IF isStart(r.tok, "ins")
  THEN extractOriginalRunsFromParagraphLoop(bs, skipTo(bs, r.d, "ins"), tt,
                                            isInsertedParagraph)
  ELSE IF isStart(r.tok, "del")
  THEN LET x == extractOriginalTextFromDeletion(bs, r.d)
       IN extractOriginalRunsFromParagraphLoop(bs, x.d, tt \o x.tt, isInsertedParagraph)
  ELSE IF isStart(r.tok, "r")
  THEN LET x == extractOriginalTextFromRun(bs, r.d)
       IN extractOriginalRunsFromParagraphLoop(bs, x.d, tt \o x.tt, isInsertedParagraph)
  ELSE IF isEnd(r.tok, "p")
  THEN [tt |-> tt, ins |-> isInsertedParagraph, d |-> r.d, err |-> "nil"]
  ELSE extractOriginalRunsFromParagraphLoop(bs, r.d, tt, isInsertedParagraph)

extractOriginalRunsFromParagraphLoop(bs, d, tt, isInsertedParagraph) ==
  extractOriginalRunsFromParagraphSwitch(bs, Token(bs, d), tt, isInsertedParagraph)

extractOriginalRunsFromParagraph(bs, d) ==
  extractOriginalRunsFromParagraphLoop(bs, d, <<>>, FALSE)

RECURSIVE extractOriginalParagraphsLoop(_, _, _)
\* what follows the call of extractOriginalRunsFromParagraph, x being what it
\* returned
extractOriginalParagraphsAppend(bs, x, paragraphs) ==
  IF x.err = "EOF" THEN [res |-> paragraphs, err |-> "nil"]
  ELSE IF x.err # "nil" THEN [res |-> <<>>, err |-> x.err]
  ELSE extractOriginalParagraphsLoop(bs, x.d,
         IF ~x.ins THEN Append(paragraphs, x.tt) ELSE paragraphs)

extractOriginalParagraphsSwitch(bs, r, paragraphs) ==
  IF r.d.err # "nil" THEN [res |-> paragraphs, err |-> "nil"]
  ELSE IF isStart(r.tok, "p")
  THEN extractOriginalParagraphsAppend(bs, extractOriginalRunsFromParagraph(bs, r.d),
                                       paragraphs)
  ELSE extractOriginalParagraphsLoop(bs, r.d, paragraphs)

extractOriginalParagraphsLoop(bs, d, paragraphs) ==
  extractOriginalParagraphsSwitch(bs, Token(bs, d), paragraphs)

extractOriginalParagraphs(bs) == extractOriginalParagraphsLoop(bs, NewDecoder, <<>>)

(***************************************************************************)
(* The containers of the model.                                            *)
(***************************************************************************)
Wrap(n, inner) == <<S(n)>> \o inner \o <<E(n)>>
\* an element n holding the text s
TextEl(n, s)   == Wrap(n, asUnits(escapeBytes(s)))
Run(items)     == Wrap("r", items)
Para(body)     == Wrap("p", body)

\* what a run may hold: a text, a text with a character to escape, an empty
\* text element, a deleted text, a text under an insertion wrapper and a text
\* under a deletion wrapper
RunItems ==
  { TextEl("t", <<"a">>), TextEl("t", <<"<">>), TextEl("t", <<>>),
    TextEl("delText", <<"b">>),
    Wrap("ins", TextEl("t", <<"c">>)),
    Wrap("del", TextEl("t", <<"b">>)) }

RECURSIVE ItemSeqs(_)
ItemSeqs(w) ==
  IF w = 0 THEN {<<>>} ELSE {x \o rest : x \in RunItems, rest \in ItemSeqs(w - 1)}

\* the paragraph-level groups holding w nodes: a run of w items; for w = 1
\* also the empty run, an inserted run and a deleted run
GroupsOf(w) ==
  {Run(x) : x \in ItemSeqs(w)}
    \cup (IF w = 1
          THEN { Run(<<>>),
                 Wrap("ins", Run(TextEl("t", <<"c">>))),
                 Wrap("del", Run(TextEl("delText", <<"b">>))) }
          ELSE {})

RECURSIVE Bodies(_)
Bodies(n) ==
  IF n = 0 THEN {<<>>}
  ELSE Bodies(n - 1)
         \cup UNION {{g \o rest : g \in GroupsOf(w), rest \in Bodies(n - w)} : w \in 1..n}

\* paragraph properties carrying an insertion marker
PPrIns == Wrap("pPr", Wrap("rPr", Wrap("ins", <<>>)))

RichParas == {Para(pp \o body) : pp \in {<<>>, PPrIns}, body \in Bodies(MaxNodes)}

PlainParas ==
  { Para(<<>>),
    Para(Run(TextEl("t", <<"a">>))),
    Para(Run(TextEl("t", <<>>))),
    Para(PPrIns \o Run(TextEl("t", <<"a">>)) \o Run(TextEl("t", <<"<">>))) }

RECURSIVE ParaSeqs(_)
ParaSeqs(n) ==
  IF n = 0 THEN {<<>>}
  ELSE ParaSeqs(n - 1) \cup {x \o rest : x \in PlainParas, rest \in ParaSeqs(n - 1)}

\* containers of plain paragraphs, inside a body element or at top level
PlainDocs == ParaSeqs(MaxParas) \cup {Wrap("body", x) : x \in ParaSeqs(MaxParas)}

\* the README's paragraph "Hello [deleted: old] [inserted: new] world", with
\* a for Hello, b for old, c for new and x for world
ReadmeExample ==
  Wrap("body", Para(Run(TextEl("t", <<"a">>))
                      \o Wrap("del", Run(TextEl("delText", <<"b">>)))
                      \o Wrap("ins", Run(TextEl("t", <<"c">>)))
                      \o Run(TextEl("t", <<"x">>))))

\* well-formed containers
IntactDocs == {Wrap("body", x) : x \in RichParas} \cup PlainDocs \cup {ReadmeExample}

\* containers cut short at any byte, or with a malformed byte there
Prefix(s, n) == [i \in 1..n |-> s[i]]

DamagedDocs ==
  UNION {{Prefix(dc, n) \o tail : n \in 0..Len(dc), tail \in {<<>>, <<BAD>>}} :
           dc \in PlainDocs}

Inputs == IntactDocs \cup DamagedDocs

(***************************************************************************)
(* Extraction of one container: ExtractTextBytes and                       *)
(* ExtractOriginalTextBytes.                                               *)
(***************************************************************************)
MatcherIdle ==
  /\ a = <<>> /\ b = <<>> /\ opcodes = <<>> /\ computed = FALSE /\ ret = <<>>
  /\ calls = 0 /\ walk = <<>> /\ runs = 0

ExtractInit ==
  /\ MatcherIdle
  /\ RewriterIdle
  /\ DiffIdle
  /\ TplIdle
  /\ input \in Inputs
  /\ accepted = NotRun
  /\ original = NotRun

ExtractTextBytes ==
  /\ accepted = NotRun
  /\ accepted' = extractParagraphs(input)
  /\ UNCHANGED <<input, original, mvars, rvars, dvars, tvars>>

ExtractOriginalTextBytes ==
  /\ original = NotRun
  /\ original' = extractOriginalParagraphs(input)
  /\ UNCHANGED <<input, accepted, mvars, rvars, dvars, tvars>>

ExtractNext == ExtractTextBytes \/ ExtractOriginalTextBytes

ExtractSpec == ExtractInit /\ [][ExtractNext]_vars

(***************************************************************************)
(* Properties of the extractor.                                            *)
(***************************************************************************)
\* the decoder after reading bs to its end or to its first error
RECURSIVE decodeAll(_, _)
decodeAll(bs, d) ==
  LET r == Token(bs, d) IN IF r.d.err # "nil" THEN r.d ELSE decodeAll(bs, r.d)

WellFormed(bs) == decodeAll(bs, NewDecoder).err = "EOF"

\* malformed markup, or input that ends while a paragraph is open
BrokenInside(bs) ==
  LET d == decodeAll(bs, NewDecoder)
  IN d.err = "syntax" /\ (d.off < Len(bs) \/ \E i \in 1..Len(d.stk) : d.stk[i] = "p")

Under(stk, n) == \E i \in 1..Len(stk) : stk[i] = n

\* whether the text node whose start tag was just pushed on stk belongs to
\* the reading: ACCEPTED keeps the ordinary text nodes that no deletion
\* wrapper encloses; ORIGINAL keeps the ordinary text nodes that no insertion
\* wrapper encloses and every deleted-text node
Kept(mode, stk) ==
  LET node == stk[Len(stk)] IN
  IF mode = "ACCEPTED" THEN node = "t" /\ ~Under(stk, "del")
  ELSE (node = "t" /\ ~Under(stk, "ins")) \/ node = "delText"

\* the paragraph texts of a well-formed container by reading: a scan of the
\* units keeping the open elements, the text of the open paragraph and the
\* paragraphs closed so far
RECURSIVE ReadingScan(_, _, _, _, _, _)
ReadingScan(mode, bs, i, stk, cur, out) ==
  IF i > Len(bs) THEN out
  ELSE LET u == bs[i] IN
    IF u.k = "S" THEN ReadingScan(mode, bs, i + 1, Append(stk, u.n), cur, out)
    ELSE IF u.k = "E"
    THEN LET rest == SubSeq(stk, 1, Len(stk) - 1) IN
         IF u.n = "p" /\ ~Under(rest, "p")
         THEN ReadingScan(mode, bs, i + 1, rest, <<>>, Append(out, cur))
         ELSE ReadingScan(mode, bs, i + 1, rest, cur, out)
    ELSE LET n == charRun(bs, i - 1)
             txt == unescape(unitNames(SubSeq(bs, i, i + n - 1))).s
         IN ReadingScan(mode, bs, i + n, stk,
                        IF stk # <<>> /\ Under(stk, "p") /\ Under(stk, "r")
                             /\ stk[Len(stk)] \in {"t", "delText"} /\ Kept(mode, stk)
                        THEN cur \o txt ELSE cur,
                        out)

Reading(mode, bs) == ReadingScan(mode, bs, 1, <<>>, <<>>, <<>>)

\* C3: for a well-formed container, ACCEPTED extraction returns per paragraph
\* the concatenation of its ordinary text nodes (insertions included, deleted
\* text excluded) and ORIGINAL extraction the concatenation of the ordinary
\* text nodes outside insertion wrappers together with the deleted-text
\* nodes; the README paragraph reads "Hello new world" and "Hello old world".
C3_Readings ==
  WellFormed(input) =>
    /\ accepted # NotRun =>
         accepted.err = "nil" /\ accepted.res = Reading("ACCEPTED", input)
    /\ original # NotRun =>
         original.err = "nil" /\ original.res = Reading("ORIGINAL", input)

\* C8: extraction of a container whose markup is malformed or ends inside a
\* paragraph returns an error in both modes, never a paragraph list.
C8_ParseErrorReturned ==
  BrokenInside(input) =>
    /\ accepted # NotRun => accepted.err # "nil"
    /\ original # NotRun => original.err # "nil"

(***************************************************************************)
(* The rewriter: processContent and the custDecoder.  Indexes into res and *)
(* offsets into input count from 0 as in the source, so Go's res[k] is     *)
(* res[k + 1] here and Go's input[i:j] is SubSeq(input, i + 1, j).         *)
(***************************************************************************)
\* the name of the container handed to processContent with the bytes bs: the
\* document part has a body element, a header part has none
ContainerOf(bs) ==
  IF bs # <<>> /\ Head(bs) = S("body") THEN "word/document.xml" ELSE "word/header1.xml"

\* the texts a replacer answers with, by position in its list
ReplyText(i) ==
  CASE i % 3 = 1 -> <<"x", "<">>
    [] i % 3 = 2 -> <<>>
    [] OTHER     -> <<"&", ">", CTL>>

\* the lists a replacer may return for a paragraph text: the text itself
\* (the default replacer) and lists of 0..MaxReplies texts
Replies(text) ==
  {<<text>>} \cup {[i \in 1..n |-> ReplyText(i)] : n \in 0..MaxReplies}

\* custDecoder.copy: segs is cd.res, saved is cd.lastSaved, next is
\* cd.dec.InputOffset()
copy(segs, saved, next) ==
  IF saved + 1 < next
  THEN [res |-> Append(segs, SubSeq(input, saved + 2, next)), lastSaved |-> next - 1]
  ELSE [res |-> segs, lastSaved |-> saved]

\* the discard that keeps the segment of the paragraph's start tag
discardAfterStart(segs, cur) == SubSeq(segs, 1, cur + 1)

\* insert, empty list: cd.res = cd.res[:cd.curPara]
discard(segs, cur) == SubSeq(segs, 1, cur)

\* the duplication that appends the paragraph without its start tag segment
duplicateShort(segs, cur) == segs \o SubSeq(segs, cur + 2, Len(segs))

\* insert, longer list: dup := cd.res[cd.curPara:]; cd.res = append(cd.res, dup...)
duplicate(segs, cur) == segs \o SubSeq(segs, cur + 1, Len(segs))

\* the end of processParagraphs that clears every error
ignoreAll(e) == "nil"

\* the end of processParagraphs: io.EOF is a normal ending, any other error stays
ignoreEOF(e) == IF e = "EOF" THEN "nil" ELSE e

\* bytes.Join(cd.res, nil)
RECURSIVE Join(_)
Join(segs) == IF segs = <<>> THEN <<>> ELSE Head(segs) \o Join(Tail(segs))

\* processContent up to the call of processParagraphs: newCustDecoder and
\* the container name
RewriteInit ==
  /\ MatcherIdle
  /\ DiffIdle
  /\ TplIdle
  /\ input \in Inputs
  /\ accepted = NotRun
  /\ original = NotRun
  /\ container = ContainerOf(input)
  /\ dec = NewDecoder
  /\ res = << <<>> >>
  /\ lastSaved = -1
  /\ cderr = "nil"
  /\ rcontent = <<>>
  /\ curPara = -1
  /\ firstRunText = -1
  /\ pc = "processParagraphs"
  /\ paras = <<>>
  /\ archive = NotWritten
  /\ perr = NoReturn
  /\ npara = 0
  /\ log = <<>>

\* one iteration of the loop of processParagraphs; on a paragraph start tag
\* the call of processRuns with its two resets
processParagraphs ==
  /\ pc = "processParagraphs"
  /\ LET r == Token(input, dec) IN
     /\ dec' = r.d
     /\ IF r.d.err # "nil"
        THEN /\ cderr' = ignoreEOF(r.d.err)
             /\ pc' = "result"
             /\ UNCHANGED <<res, lastSaved, curPara, rcontent, firstRunText, npara>>
        ELSE LET c == copy(res, lastSaved, r.d.off) IN
             /\ cderr' = "nil"
             /\ res' = c.res
             /\ lastSaved' = c.lastSaved
             /\ IF isStart(r.tok, "p")
                THEN /\ curPara' = Len(c.res) - 1
                     /\ rcontent' = <<>>
                     /\ firstRunText' = -1
                     /\ npara' = npara + 1
                     /\ pc' = "processRuns"
                ELSE UNCHANGED <<curPara, rcontent, firstRunText, npara, pc>>
  /\ UNCHANGED <<container, paras, archive, perr, log, mvars, xvars, dvars, tvars>>

\* one iteration of the loop of processRuns; at the paragraph's end tag the
\* replacer is invoked when a text element was met
processRuns ==
  /\ pc = "processRuns"
  /\ LET r == Token(input, dec) IN
     /\ dec' = r.d
     /\ cderr' = r.d.err
     /\ IF r.d.err # "nil"
        THEN /\ pc' = "processParagraphs"
             /\ UNCHANGED <<res, lastSaved, paras, log>>
        ELSE LET c == copy(res, lastSaved, r.d.off) IN
             /\ res' = c.res
             /\ lastSaved' = c.lastSaved
             /\ IF isStart(r.tok, "r")
                THEN pc' = "processText" /\ UNCHANGED <<paras, log>>
                ELSE IF isEnd(r.tok, "p")
                THEN IF firstRunText >= 0
                     THEN \E replaced \in Replies(rcontent) :
                            /\ paras' = replaced
                            /\ log' = Append(log, [container |-> container,
                                                   original |-> rcontent,
                                                   replaced |-> replaced])
                            /\ pc' = "insert"
                     ELSE pc' = "processParagraphs" /\ UNCHANGED <<paras, log>>
                ELSE UNCHANGED <<pc, paras, log>>
  /\ UNCHANGED <<container, rcontent, curPara, firstRunText, archive, perr, npara,
                 mvars, xvars, dvars, tvars>>

\* one entry into insert, the recursive entries included
insert ==
  /\ pc = "insert"
  /\ IF Len(paras) = 0
     THEN /\ res' = discard(res, curPara)
          /\ lastSaved' = dec.off - 1
          /\ pc' = "processParagraphs"
          /\ UNCHANGED <<curPara, firstRunText, paras>>
     ELSE LET filled == [res EXCEPT ![firstRunText + 1] = xmlEscape(paras[1])] IN
          IF Len(paras) = 1
          THEN /\ res' = filled
               /\ paras' = <<>>
               /\ pc' = "processParagraphs"
               /\ UNCHANGED <<lastSaved, curPara, firstRunText>>
          ELSE LET grown == duplicate(filled, curPara)
                   n == Len(grown) - Len(filled)
               IN /\ res' = grown
                  /\ curPara' = curPara + n
                  /\ firstRunText' = firstRunText + n
                  /\ paras' = Tail(paras)
                  /\ UNCHANGED <<lastSaved, pc>>
  /\ UNCHANGED <<container, dec, cderr, rcontent, archive, perr, npara, log,
                 mvars, xvars, dvars, tvars>>

\* processText that appends no placeholder
placeholderNone(segs, first) == segs

\* processText at a text element's start tag: the empty placeholder is
\* appended when the paragraph has none yet
placeholder(segs, first) == IF first < 0 THEN Append(segs, <<>>) ELSE segs

\* one iteration of the loop of processText
processText ==
  /\ pc = "processText"
  /\ LET r == Token(input, dec) IN
     /\ dec' = r.d
     /\ cderr' = r.d.err
     /\ IF r.d.err # "nil"
        THEN /\ pc' = "processRuns"
             /\ UNCHANGED <<res, lastSaved, firstRunText>>
        ELSE LET c == copy(res, lastSaved, r.d.off) IN
             /\ lastSaved' = c.lastSaved
             /\ IF isStart(r.tok, "t")
                THEN /\ res' = placeholder(c.res, firstRunText)
                     /\ firstRunText' = IF firstRunText < 0 THEN Len(res') - 1
                                        ELSE firstRunText
                     /\ pc' = "processTextContent"
                ELSE /\ res' = c.res
                     /\ pc' = IF isEnd(r.tok, "r") THEN "processRuns" ELSE pc
                     /\ UNCHANGED firstRunText
  /\ UNCHANGED <<container, rcontent, curPara, paras, archive, perr, npara, log,
                 mvars, xvars, dvars, tvars>>

\* the character data left where it is, to be copied with the next token
skipNothing(saved, next) == saved

\* processTextContent on character data: cd.lastSaved = cd.dec.InputOffset() - 1
skip(saved, next) == next - 1

\* one iteration of the loop of processTextContent: character data is
\* aggregated and skipped, everything else is copied
processTextContent ==
  /\ pc = "processTextContent"
  /\ LET r == Token(input, dec) IN
     /\ dec' = r.d
     /\ cderr' = r.d.err
     /\ IF r.d.err # "nil"
        THEN /\ pc' = "processText"
             /\ UNCHANGED <<res, lastSaved, rcontent>>
        ELSE IF r.tok.k = "C"
        THEN /\ rcontent' = rcontent \o r.tok.s
             /\ lastSaved' = skip(lastSaved, r.d.off)
             /\ UNCHANGED <<res, pc>>
        ELSE LET c == copy(res, lastSaved, r.d.off) IN
             /\ res' = c.res
             /\ lastSaved' = c.lastSaved
             /\ pc' = IF isEnd(r.tok, "t") THEN "processText" ELSE pc
             /\ UNCHANGED rcontent
  /\ UNCHANGED <<container, curPara, firstRunText, paras, archive, perr, npara, log,
                 mvars, xvars, dvars, tvars>>

\* processContent after processParagraphs: result, then either the error
\* naming the container or the write of the container to the archive
processContent ==
  /\ pc = "result"
  /\ LET c == copy(res, lastSaved, dec.off)
         modifiedXML == Join(c.res)
     IN /\ res' = c.res
        /\ lastSaved' = c.lastSaved
        /\ IF cderr # "nil"
           THEN /\ perr' = [returned |-> TRUE, failed |-> TRUE,
                            name |-> container, cause |-> cderr]
                /\ UNCHANGED archive
           ELSE /\ archive' = [written |-> TRUE, name |-> container,
                               bytes |-> modifiedXML]
                /\ perr' = [returned |-> TRUE, failed |-> FALSE,
                            name |-> "", cause |-> "nil"]
  /\ pc' = "done"
  /\ UNCHANGED <<container, dec, cderr, rcontent, curPara, firstRunText, paras,
                 npara, log, mvars, xvars, dvars, tvars>>

RewriteNext ==
  \/ processParagraphs
  \/ processRuns
  \/ processText
  \/ processTextContent
  \/ insert
  \/ processContent

RewriteSpec == RewriteInit /\ [][RewriteNext]_vars

(***************************************************************************)
(* Properties of the rewriter.  The output a reply calls for is described  *)
(* from the input's paragraphs, independently of the segment list.         *)
(***************************************************************************)
\* the first index from i on where bs holds unit u, or 0
RECURSIVE IndexFrom(_, _, _)
IndexFrom(bs, u, i) ==
  IF i > Len(bs) THEN 0 ELSE IF bs[i] = u THEN i ELSE IndexFrom(bs, u, i + 1)

\* the paragraphs of bs from index i on: first and last index of each, from
\* the start tag to the end tag
RECURSIVE ParaSpans(_, _)
ParaSpans(bs, i) ==
  LET from == IndexFrom(bs, S("p"), i)
      to   == IF from = 0 THEN 0 ELSE IndexFrom(bs, E("p"), from + 1)
  IN IF from = 0 \/ to = 0 THEN <<>>
     ELSE <<[from |-> from, to |-> to]>> \o ParaSpans(bs, to + 1)

\* index i of bs lies inside an open element n that started at or after lo
InsideOpen(bs, lo, i, n) ==
  \E j \in lo..(i - 1) :
    bs[j] = S(n) /\ \A m \in (j + 1)..(i - 1) : bs[m] # E(n)

\* the start tags of the text elements of a paragraph: those inside a run
TextStarts(bs, sp) ==
  {i \in sp.from..sp.to : bs[i] = S("t") /\ InsideOpen(bs, sp.from, i, "r")}

RECURSIVE SelectSpans(_, _)
SelectSpans(bs, sps) ==
  IF sps = <<>> THEN <<>>
  ELSE (IF TextStarts(bs, Head(sps)) # {} THEN <<Head(sps)>> ELSE <<>>)
         \o SelectSpans(bs, Tail(sps))

\* the paragraphs of the input that have a text element, in document order
TextSpans == SelectSpans(input, ParaSpans(input, 1))

\* the character data of the paragraph's text elements
TextData(bs, sp) ==
  {i \in sp.from..sp.to :
     bs[i].k = "C" /\ \E j \in TextStarts(bs, sp) :
                         j < i /\ \A m \in (j + 1)..(i - 1) : bs[m] # E("t")}

\* the bytes of bs from index i to index hi with the character data at the
\* indexes of drop left out and the bytes put written after index first
RECURSIVE FillFrom(_, _, _, _, _, _)
FillFrom(bs, hi, first, drop, put, i) ==
  IF i > hi THEN <<>>
  ELSE (IF i \in drop THEN <<>>
        ELSE IF i = first THEN <<bs[i]>> \o put
        ELSE <<bs[i]>>)
       \o FillFrom(bs, hi, first, drop, put, i + 1)

\* the paragraph sp of bs carrying s: the escaped s right after the start
\* tag of the first text element, no other character data in text elements,
\* every other byte as it is and where it is
Fill(bs, sp, s) ==
  LET starts == TextStarts(bs, sp)
      first  == CHOOSE j \in starts : \A m \in starts : j <= m
  IN FillFrom(bs, sp.to, first, TextData(bs, sp), asUnits(escapeBytes(s)), sp.from)

\* one filled copy of the paragraph per element of the reply, in order
RECURSIVE Copies(_, _, _)
Copies(bs, sp, reply) ==
  IF reply = <<>> THEN <<>>
  ELSE Fill(bs, sp, Head(reply)) \o Copies(bs, sp, Tail(reply))

\* In what follows sps is TextSpans and k numbers its paragraphs.
\* the bytes of the input between text paragraph k - 1 and text paragraph k
Gap(sps, k) ==
  SubSeq(input, IF k = 1 THEN 1 ELSE sps[k - 1].to + 1, sps[k].from - 1)

\* what the reply to text paragraph k calls for
Piece(sps, k) == Copies(input, sps[k], log[k].replaced)

\* what is to be emitted ahead of text paragraph k, and after it
RECURSIVE Before(_, _)
Before(sps, k) ==
  IF k = 1 THEN Gap(sps, 1)
  ELSE Before(sps, k - 1) \o Piece(sps, k - 1) \o Gap(sps, k)

RECURSIVE After(_, _)
After(sps, k) ==
  IF k = Len(sps)
  THEN SubSeq(input, sps[k].to + 1, Len(input))
  ELSE Gap(sps, k + 1) \o Piece(sps, k + 1) \o After(sps, k + 1)

\* the part of the written container between what goes ahead of text
\* paragraph k and what goes after it
Part(sps, k) ==
  SubSeq(archive.bytes, Len(Before(sps, k)) + 1,
         Len(archive.bytes) - Len(After(sps, k)))

\* the part of the written container that follows text paragraph k
Rest(sps, k) ==
  SubSeq(archive.bytes, Len(archive.bytes) - Len(After(sps, k)) + 1,
         Len(archive.bytes))

\* the number of paragraph start tags in bs
RECURSIVE CountP(_)
CountP(bs) ==
  IF bs = <<>> THEN 0 ELSE (IF Head(bs) = S("p") THEN 1 ELSE 0) + CountP(Tail(bs))

\* the rewrite ended and the container was written
Written == pc = "done" /\ archive.written

\* every text paragraph but k got a one-element reply
OthersSingle(k) == \A j \in 1..Len(log) : j # k => Len(log[j].replaced) = 1

EmptyTexts(bs) ==
  LET sps == SelectSpans(bs, ParaSpans(bs, 1))
  IN sps # <<>> /\ \A k \in 1..Len(sps) : TextData(bs, sps[k]) = {}

\* C7: the replacer is never invoked with an empty original text, and a
\* container whose text elements carry no character data is written as it
\* was read.
C7_EmptyParagraphUntouched ==
  /\ \A k \in 1..Len(log) : log[k].original # <<>>
  /\ Written /\ EmptyTexts(input) => archive.bytes = input

\* C9: when the markup is malformed or the input ends inside a paragraph,
\* processContent returns an error naming the container and writes nothing
\* for it; when the input ends between top-level elements it returns no error
\* and the container is written under its name.
C9_ErrorNamesContainer ==
  pc = "done" =>
    /\ perr.returned
    /\ BrokenInside(input) =>
         perr.failed /\ perr.name = container /\ ~archive.written
    /\ WellFormed(input) =>
         ~perr.failed /\ archive.written /\ archive.name = container

\* a container that breaks after a paragraph was already rewritten
C9_Witness ==
  /\ pc = "done"
  /\ BrokenInside(input)
  /\ perr.failed
  /\ log # <<>>

\* every reply so far is the one-element list of the text it was asked about
Echo == \A k \in 1..Len(log) : log[k].replaced = <<log[k].original>>

\* C10: after a rewrite in which every reply echoes the paragraph text,
\* ACCEPTED extraction of the written container returns the list ACCEPTED
\* extraction of the input returns.
C10_EchoRoundTrip ==
  Written /\ Echo =>
    extractParagraphs(archive.bytes) = extractParagraphs(input)

\* s with every character outside the XML character range replaced by U+FFFD
RECURSIVE Sanitize(_)
Sanitize(s) ==
  IF s = <<>> THEN <<>>
  ELSE <<IF Head(s) = CTL THEN FFFD ELSE Head(s)>> \o Sanitize(Tail(s))

\* insert has just filled the placeholder of the last paragraph copy with the
\* last string of the latest reply, and no error stopped the rewrite
Filled ==
  /\ pc \in {"processParagraphs", "result", "done"}
  /\ cderr = "nil"
  /\ firstRunText >= 0
  /\ log # <<>>
  /\ log[Len(log)].replaced # <<>>

\* the string the placeholder was filled with
LastString == LET reply == log[Len(log)].replaced IN reply[Len(reply)]

\* the bytes written for it
WrittenText == res[firstRunText + 1]

\* the written bytes are character data without a raw '<' or '>' and with
\* '&' only at the start of an entity
NoMarkup(us) ==
  /\ \A i \in 1..Len(us) : us[i].k = "C" /\ us[i].n \notin {"<", ">"}
  /\ unescape(unitNames(us)).ok

\* C11 as stated: the bytes written for a replacement string s hold no raw
\* '<', '>' or '&', and parsing them back yields s.
C11_RoundTrip ==
  Filled =>
    /\ NoMarkup(WrittenText)
    /\ unescape(unitNames(WrittenText)).s = LastString

\* C11, amended: the bytes written for a replacement string s hold no raw
\* '<', '>' or '&', the written container is well-formed, and parsing the
\* bytes back yields s with every character outside the XML character range
\* replaced by U+FFFD, hence s itself when s has no such character.
C11_Escaped ==
  /\ Filled =>
       /\ NoMarkup(WrittenText)
       /\ unescape(unitNames(WrittenText)).s = Sanitize(LastString)
  /\ Written => WellFormed(archive.bytes)

\* a reply string with '&', '>' and a control character was written
C11_Witness ==
  /\ Filled
  /\ Written
  /\ LastString = <<"&", ">", CTL>>

(***************************************************************************)
(* Further properties of the extractor.                                    *)
(***************************************************************************)
\* the decoded character data found between the indexes from and to of bs
CharDataIn(bs, from, to) ==
  LET idx == {i \in from..to : bs[i].k = "C"}
      pick[i \in (from - 1)..to] ==
        IF i < from THEN <<>>
        ELSE pick[i - 1] \o (IF i \in idx THEN <<bs[i].n>> ELSE <<>>)
  IN unescape(pick[to]).s

\* the list has one string per paragraph of bs, the k-th made of character
\* data of the k-th paragraph in its order (so empty when it has none)
OnePerParagraph(bs, list) ==
  LET sps == ParaSpans(bs, 1) IN
  /\ Len(list) = CountP(bs)
  /\ Len(list) = Len(sps)
  /\ \A k \in 1..Len(list) :
       IsSubseq(list[k], CharDataIn(bs, sps[k].from, sps[k].to))

\* C12: for a well-formed container extraction in either mode returns one
\* string per paragraph element, in document order, the empty string for a
\* paragraph without text; ORIGINAL mode omits no paragraph, so both modes
\* return lists of the same length.
C12_OnePerParagraph ==
  WellFormed(input) =>
    /\ accepted # NotRun => OnePerParagraph(input, accepted.res)
    /\ original # NotRun => OnePerParagraph(input, original.res)
    /\ accepted # NotRun /\ original # NotRun =>
         Len(accepted.res) = Len(original.res)

\* both modes ran on two paragraphs, one of them with an insertion marker in
\* its paragraph properties and one without text
C12_Witness ==
  /\ WellFormed(input)
  /\ accepted # NotRun /\ original # NotRun
  /\ Len(original.res) = 2
  /\ \E i \in 1..Len(input) : input[i] = S("pPr")
  /\ \E k \in 1..2 : original.res[k] = <<>>

\* what ACCEPTED extraction returns for paragraph sp of the input
AcceptedText(sp) == extractParagraphs(SubSeq(input, sp.from, sp.to)).res[1]

\* C13: for every paragraph on which the rewriter invoked the replacer, the
\* original text it passed equals the string ACCEPTED extraction returns for
\* that paragraph.
C13_ReplacerSeesAccepted ==
  LET sps == TextSpans IN
  \A k \in 1..Len(log) :
    k <= Len(sps) /\ log[k].original = AcceptedText(sps[k])

(***************************************************************************)
(* diff.go: Diff, diffContainer, diffAtWordLevel, splitIntoWords,          *)
(* joinParagraphs, PrettyPrint, escapeText.  A string is the sequence of   *)
(* its characters.                                                         *)
(***************************************************************************)
NL == "\n"

\* the characters of the paragraph texts handed to Diff
DiffChars == {"a", "b", " ", "<", ">"}

\* the class \s of the regular expression
IsSpace(ch) == ch \in {" ", NL}

\* one token per character
RECURSIVE splitChars(_)
splitChars(text) ==
  IF text = <<>> THEN <<>> ELSE <<<<Head(text)>>>> \o splitChars(Tail(text))

\* the end of the match of \S+ or of \s+ that starts at index i: the
\* quantifier is greedy, so the match runs on while the class is the same
RECURSIVE matchEnd(_, _)
matchEnd(text, i) ==
  IF i < Len(text) /\ IsSpace(text[i + 1]) = IsSpace(text[i])
  THEN matchEnd(text, i + 1) ELSE i

\* re.FindAllString(text, -1) for \S+|\s+ : the successive leftmost matches
RECURSIVE FindAllString(_, _)
FindAllString(text, i) ==
  IF i > Len(text) THEN <<>>
  ELSE LET j == matchEnd(text, i)
       IN <<SubSeq(text, i, j)>> \o FindAllString(text, j + 1)

splitIntoWords(text) ==
  IF text = <<>> THEN <<>>
  ELSE SelectSeq(FindAllString(text, 1), LAMBDA match : match # <<>>)

\* the join that keeps the last paragraph only
joinLast(paragraphs) ==
  IF Len(paragraphs) = 0 THEN <<>> ELSE paragraphs[Len(paragraphs)]

\* joinParagraphs: the paragraphs with "\n" between them
RECURSIVE joinParagraphs(_)
joinParagraphs(paragraphs) ==
  IF Len(paragraphs) = 0 THEN <<>>
  ELSE IF Len(paragraphs) = 1 THEN paragraphs[1]
  ELSE joinParagraphs(SubSeq(paragraphs, 1, Len(paragraphs) - 1))
         \o <<NL>> \o paragraphs[Len(paragraphs)]

\* the join that keeps the first word of the range only
stringsJoinFirst(ws, i1, i2) == IF i1 >= i2 THEN <<>> ELSE ws[i1 + 1]

\* strings.Join(words[i1:i2], "") with Go's indexes
RECURSIVE stringsJoin(_, _, _)
stringsJoin(ws, i1, i2) ==
  IF i1 >= i2 THEN <<>> ELSE ws[i1 + 1] \o stringsJoin(ws, i1 + 1, i2)

internalDiff(type, text) == [Type |-> type, Text |-> text]

\* the body of the loop of diffAtWordLevel: what one opcode appends
diffsOf(originalWords, acceptedWords, opcode) ==
  LET del == IF opcode.I1 < opcode.I2
             THEN <<internalDiff("delete",
                                 stringsJoin(originalWords, opcode.I1, opcode.I2))>>
             ELSE <<>>
      ins == IF opcode.J1 < opcode.J2
             THEN <<internalDiff("insert",
                                 stringsJoin(acceptedWords, opcode.J1, opcode.J2))>>
             ELSE <<>>
  IN CASE opcode.Tag = "e" ->
            IF opcode.I1 < opcode.I2
            THEN <<internalDiff("equal",
                                stringsJoin(originalWords, opcode.I1, opcode.I2))>>
            ELSE <<>>
       [] opcode.Tag = "d" -> del
       [] opcode.Tag = "i" -> ins
       [] opcode.Tag = "r" -> del \o ins
       [] OTHER -> <<>>

RECURSIVE diffLoop(_, _, _)
diffLoop(originalWords, acceptedWords, ops) ==
  IF ops = <<>> THEN <<>>
  ELSE diffsOf(originalWords, acceptedWords, Head(ops))
         \o diffLoop(originalWords, acceptedWords, Tail(ops))

\* diffAtWordLevel, with the words and opcodes it computed on the way
diffAtWordLevel(originalText, acceptedText) ==
  LET originalWords == splitIntoWords(originalText)
      acceptedWords == splitIntoWords(acceptedText)
      ops == computeOpCodes(originalWords, acceptedWords)
  IN [originalWords |-> originalWords, acceptedWords |-> acceptedWords,
      opcodes |-> ops, diffs |-> diffLoop(originalWords, acceptedWords, ops)]

diffOperation(d) == [Type |-> d.Type, Text |-> d.Text, Container |-> "", Paragraph |-> 0]

\* diffContainer: the containerDiff's Operations, with what was computed
diffContainer(originalParagraphs, acceptedParagraphs) ==
  LET originalText == joinParagraphs(originalParagraphs)
      acceptedText == joinParagraphs(acceptedParagraphs)
  IN IF originalText = <<>> /\ acceptedText = <<>>
     THEN [originalWords |-> <<>>, acceptedWords |-> <<>>, opcodes |-> <<>>,
           Operations |-> <<>>]
     ELSE LET w == diffAtWordLevel(originalText, acceptedText)
          IN [originalWords |-> w.originalWords, acceptedWords |-> w.acceptedWords,
              opcodes |-> w.opcodes,
              Operations |-> [k \in 1..Len(w.diffs) |-> diffOperation(w.diffs[k])]]

\* original[containerName]: the nil slice for a name the map does not hold
Lookup(m, n) == IF n \in DOMAIN m THEN m[n] ELSE <<>>

\* the test that takes any operation for a change
hasOperations(ops) == ops # <<>>

\* Diff, first loop over the operations: is any of them not "equal"
hasChanges(ops) == \E k \in 1..Len(ops) : ops[k].Type # "equal"

\* the count that takes every operation for one of the type
tallyAll(ops, type) == Len(ops)

\* Diff, second loop over the operations: the increments a container adds to
\* the total of the type
tally(ops, type) == Cardinality({k \in 1..Len(ops) : ops[k].Type = type})

\* the sum of the increments of all containers
Total(ds, type) ==
  LET sum[ns \in SUBSET DOMAIN ds] ==
        IF ns = {} THEN 0
        ELSE LET n == CHOOSE x \in ns : TRUE
             IN tally(ds[n].Operations, type) + sum[ns \ {n}]
  IN sum[DOMAIN ds]

\* the characters of a string constant
LtEntity  == <<"&", "l", "t", ";">>
GtEntity  == <<"&", "g", "t", ";">>
DeleteOpen  == <<"<", "d", "e", "l", "e", "t", "e", ">">>
DeleteClose == <<"<", "/", "d", "e", "l", "e", "t", "e", ">">>
InsertOpen  == <<"<", "i", "n", "s", "e", "r", "t", ">">>
InsertClose == <<"<", "/", "i", "n", "s", "e", "r", "t", ">">>

\* strings.ReplaceAll(text, old, new) for a one-character old
RECURSIVE ReplaceAll(_, _, _)
ReplaceAll(text, old, new) ==
  IF text = <<>> THEN <<>>
  ELSE (IF Head(text) = old THEN new ELSE <<Head(text)>>)
         \o ReplaceAll(Tail(text), old, new)

\* the escaping that leaves '>' as it is
escapeLtOnly(text) == ReplaceAll(text, "<", LtEntity)

escapeText(text) == ReplaceAll(ReplaceAll(text, "<", LtEntity), ">", GtEntity)

\* PrettyPrint, the switch on op.Type: what one operation writes
printOp(op) ==
  CASE op.Type = "delete" -> DeleteOpen \o escapeText(op.Text) \o DeleteClose
    [] op.Type = "insert" -> InsertOpen \o escapeText(op.Text) \o InsertClose
    [] op.Type = "equal"  -> escapeText(op.Text)
    [] OTHER -> <<>>

\* PrettyPrint, the loop over a container's operations and the two newlines
RECURSIVE printOps(_)
printOps(ops) ==
  IF ops = <<>> THEN <<NL, NL>> ELSE printOp(Head(ops)) \o printOps(Tail(ops))

\* the inputs of Diff
ContainerNames == {"word/document.xml", "word/header1.xml"}
Texts == SeqsUpTo(DiffChars, MaxText)
ParaTexts == {<<"a", " ", "b">>, <<"a", " ", "<", "b", ">">>}
ParaLists == SeqsUpTo(ParaTexts, DiffParas)
\* the lists of at most one paragraph
ShortLists == {<<>>} \cup {<<t>> : t \in ParaTexts}
Mappings == UNION {[D -> ShortLists] : D \in SUBSET ContainerNames}

\* the arguments of Diff: two mappings over the container names with at
\* most one paragraph per container, or two mappings of one container, the
\* original with one paragraph of any text or with a list of paragraphs
DiffInit ==
  /\ MatcherIdle
  /\ ExtractorIdle
  /\ RewriterIdle
  /\ TplIdle
  /\ \/ origMap \in Mappings /\ accMap \in Mappings
     \/ /\ origMap \in {[n \in {"word/document.xml"} |-> <<t>>] : t \in Texts}
        /\ accMap \in {[n \in {"word/document.xml"} |-> l] : l \in ParaLists}
     \/ /\ origMap \in {[n \in {"word/document.xml"} |-> l] : l \in ParaLists}
        /\ accMap \in {[n \in {"word/document.xml"} |-> l] : l \in ParaLists}
  /\ diffResult = NoResult
  /\ trace = EmptyMap
  /\ report = NoReport

Diff ==
  /\ ~diffResult.returned
  /\ LET containerNames == DOMAIN origMap \cup DOMAIN accMap
         ds == [n \in containerNames |->
                  diffContainer(Lookup(origMap, n), Lookup(accMap, n))]
         changed == {n \in containerNames : hasChanges(ds[n].Operations)}
     IN /\ trace' = ds
        /\ diffResult' =
             [returned |-> TRUE,
              ContainerDiffs |-> [n \in changed |-> ds[n].Operations],
              Summary |-> [TotalContainers   |-> Cardinality(containerNames),
                           ChangedContainers |-> Cardinality(changed),
                           TotalInsertions   |-> Total(ds, "insert"),
                           TotalDeletions    |-> Total(ds, "delete"),
                           TotalEqual        |-> Total(ds, "equal")]]
  /\ UNCHANGED <<origMap, accMap, report, mvars, xvars, rvars, tvars>>

\* the orders in which a range loop may visit the keys of a map: the
\* iteration order of a Go map is not specified and differs between loops
Orders(keys) ==
  {o \in [1..Cardinality(keys) -> keys] :
     \A i, j \in 1..Cardinality(keys) : i # j => o[i] # o[j]}

\* one call of PrettyPrint: the summary block, then one section per entry
\* of ContainerDiffs in the order the range loop visits the map
PrettyPrint ==
  /\ diffResult.returned
  /\ \E order \in Orders(DOMAIN diffResult.ContainerDiffs) :
       report' = [printed |-> TRUE,
                  header  |-> diffResult.Summary,
                  order   |-> order,
                  bodies  |-> [n \in DOMAIN diffResult.ContainerDiffs |->
                                 printOps(diffResult.ContainerDiffs[n])]]
  /\ UNCHANGED <<origMap, accMap, diffResult, trace, mvars, xvars, rvars, tvars>>

DiffNext == Diff \/ PrettyPrint

DiffSpec == DiffInit /\ [][DiffNext]_vars

(***************************************************************************)
(* Properties of the diff.                                                 *)
(***************************************************************************)
RECURSIVE Flatten(_)
Flatten(ws) == IF ws = <<>> THEN <<>> ELSE Head(ws) \o Flatten(Tail(ws))

\* ws are the maximal runs of whitespace and of non-whitespace of text
MaximalRuns(ws, text) ==
  /\ \A k \in 1..Len(ws) :
       /\ ws[k] # <<>>
       /\ \A i \in 1..Len(ws[k]) : IsSpace(ws[k][i]) = IsSpace(ws[k][1])
  /\ \A k \in 1..(Len(ws) - 1) : IsSpace(ws[k][1]) # IsSpace(ws[k + 1][1])
  /\ Flatten(ws) = text

\* text is made of whole consecutive tokens of ws
WholeWords(text, ws) ==
  \E i1 \in 0..Len(ws) : \E i2 \in i1..Len(ws) :
    text = Flatten(SubSeq(ws, i1 + 1, i2))

\* C14: the tokens splitIntoWords returned for the joined text of a container
\* are its maximal runs of whitespace and of non-whitespace characters (none
\* empty, none mixed, neighbours of different classes, their concatenation
\* the text), and every operation's text is made of whole tokens.
C14_MaximalRuns ==
  diffResult.returned =>
    \A n \in DOMAIN trace :
      LET t == trace[n] IN
      /\ MaximalRuns(t.originalWords, joinParagraphs(Lookup(origMap, n)))
      /\ MaximalRuns(t.acceptedWords, joinParagraphs(Lookup(accMap, n)))
      /\ \A k \in 1..Len(t.Operations) :
           IF t.Operations[k].Type = "insert"
           THEN WholeWords(t.Operations[k].Text, t.acceptedWords)
           ELSE WholeWords(t.Operations[k].Text, t.originalWords)

\* a text with a run of two whitespace characters after a word was split and
\* compared
C14_Witness ==
  /\ diffResult.returned
  /\ \E n \in DOMAIN trace :
       /\ trace[n].originalWords = << <<"a">>, <<" ", " ">> >>
       /\ \E k \in 1..Len(trace[n].Operations) :
            trace[n].Operations[k].Type = "delete"

\* C15: TotalContainers is the number of distinct names of the two mappings,
\* ContainerDiffs holds exactly the containers whose comparison has an opcode
\* that is not Equal, and ChangedContainers is the number of its entries.
C15_ChangedContainers ==
  diffResult.returned =>
    LET names == DOMAIN origMap \cup DOMAIN accMap IN
    /\ diffResult.Summary.TotalContainers =
         Cardinality({n \in ContainerNames : n \in DOMAIN origMap \/ n \in DOMAIN accMap})
    /\ DOMAIN diffResult.ContainerDiffs =
         {n \in names : \E k \in 1..Len(trace[n].opcodes) :
                           trace[n].opcodes[k].Tag # "e"}
    /\ diffResult.Summary.ChangedContainers =
         Cardinality(DOMAIN diffResult.ContainerDiffs)
    /\ diffResult.Summary.ChangedContainers <= diffResult.Summary.TotalContainers

\* two containers named by different mappings were compared, one of them
\* changed and the other made of equal text only
C15_Witness ==
  /\ diffResult.returned
  /\ DOMAIN origMap # DOMAIN accMap
  /\ diffResult.Summary.TotalContainers = 2
  /\ diffResult.Summary.ChangedContainers = 1
  /\ \E n \in DOMAIN trace :
       /\ n \notin DOMAIN diffResult.ContainerDiffs
       /\ trace[n].Operations # <<>>

\* the sum of the values of a function
SumF(f) ==
  LET sum[ns \in SUBSET DOMAIN f] ==
        IF ns = {} THEN 0
        ELSE LET n == CHOOSE x \in ns : TRUE IN f[n] + sum[ns \ {n}]
  IN sum[DOMAIN f]

RECURSIVE SumSeq(_)
SumSeq(q) == IF q = <<>> THEN 0 ELSE Head(q) + SumSeq(Tail(q))

\* the number of opcodes of ops with a tag of tags
Edits(ops, tags) == Cardinality({k \in 1..Len(ops) : ops[k].Tag \in tags})

\* the number of tokens of a (side "a") or of b that the opcodes of ops with
\* a tag of tags cover
Covered(ops, tags, side) ==
  SumSeq([k \in 1..Len(ops) |->
            IF ops[k].Tag \notin tags THEN 0
            ELSE IF side = "a" THEN ops[k].I2 - ops[k].I1
            ELSE ops[k].J2 - ops[k].J1])

\* C16, as stated: the three totals are the numbers of tokens covered by the
\* Insert, Delete and Equal edits of all containers, a Replace counting its
\* source tokens as deleted and its target tokens as inserted.
C16_TokenCounts ==
  diffResult.returned =>
    /\ diffResult.Summary.TotalInsertions =
         SumF([n \in DOMAIN trace |-> Covered(trace[n].opcodes, {"i", "r"}, "b")])
    /\ diffResult.Summary.TotalDeletions =
         SumF([n \in DOMAIN trace |-> Covered(trace[n].opcodes, {"d", "r"}, "a")])
    /\ diffResult.Summary.TotalEqual =
         SumF([n \in DOMAIN trace |-> Covered(trace[n].opcodes, {"e"}, "a")])

\* C16, amended: the three totals are the numbers of Insert, Delete and Equal
\* edits of all containers, whatever number of tokens each covers, a Replace
\* counting as one deletion and one insertion.
C16_EditCounts ==
  diffResult.returned =>
    /\ diffResult.Summary.TotalInsertions =
         SumF([n \in DOMAIN trace |-> Edits(trace[n].opcodes, {"i", "r"})])
    /\ diffResult.Summary.TotalDeletions =
         SumF([n \in DOMAIN trace |-> Edits(trace[n].opcodes, {"d", "r"})])
    /\ diffResult.Summary.TotalEqual =
         SumF([n \in DOMAIN trace |-> Edits(trace[n].opcodes, {"e"})])

\* two containers were compared, with a Replace, a Delete of several tokens
\* and an Equal edit of several tokens among their opcodes
C16_Witness ==
  /\ diffResult.returned
  /\ Cardinality(DOMAIN trace) = 2
  /\ \E n \in DOMAIN trace : \E k \in 1..Len(trace[n].opcodes) :
       trace[n].opcodes[k].Tag = "r"
  /\ \E n \in DOMAIN trace : \E k \in 1..Len(trace[n].opcodes) :
       /\ trace[n].opcodes[k].Tag = "d"
       /\ trace[n].opcodes[k].I2 - trace[n].opcodes[k].I1 > 1
  /\ \E n \in DOMAIN trace : \E k \in 1..Len(trace[n].opcodes) :
       /\ trace[n].opcodes[k].Tag = "e"
       /\ trace[n].opcodes[k].I2 - trace[n].opcodes[k].I1 > 1
  /\ diffResult.Summary.TotalInsertions > 0
  /\ diffResult.Summary.TotalDeletions > 0

\* the rendering of a text, character by character
RECURSIVE Rendered(_)
Rendered(text) ==
  IF text = <<>> THEN <<>>
  ELSE (CASE Head(text) = "<" -> <<"&", "l", "t", ";">>
          [] Head(text) = ">" -> <<"&", "g", "t", ";">>
          [] OTHER -> <<Head(text)>>) \o Rendered(Tail(text))

\* the rendering of an operation
Marked(op) ==
  CASE op.Type = "equal"  -> Rendered(op.Text)
    [] op.Type = "delete" -> <<"<", "d", "e", "l", "e", "t", "e", ">">> \o Rendered(op.Text)
                               \o <<"<", "/", "d", "e", "l", "e", "t", "e", ">">>
    [] op.Type = "insert" -> <<"<", "i", "n", "s", "e", "r", "t", ">">> \o Rendered(op.Text)
                               \o <<"<", "/", "i", "n", "s", "e", "r", "t", ">">>

MarkerTags ==
  {<<"<", "d", "e", "l", "e", "t", "e", ">">>, <<"<", "/", "d", "e", "l", "e", "t", "e", ">">>,
   <<"<", "i", "n", "s", "e", "r", "t", ">">>, <<"<", "/", "i", "n", "s", "e", "r", "t", ">">>}

\* tag stands in body at index i
TagAt(body, i, tag) ==
  /\ i + Len(tag) - 1 <= Len(body)
  /\ SubSeq(body, i, i + Len(tag) - 1) = tag

\* every '<' and '>' of body from index i on belongs to one of the four tags
RECURSIVE OnlyTagsRaw(_, _)
OnlyTagsRaw(body, i) ==
  IF i > Len(body) THEN TRUE
  ELSE IF \E tag \in MarkerTags : TagAt(body, i, tag)
       THEN LET tag == CHOOSE x \in MarkerTags : TagAt(body, i, x)
            IN OnlyTagsRaw(body, i + Len(tag))
       ELSE body[i] \notin {"<", ">"} /\ OnlyTagsRaw(body, i + 1)

\* the texts of the operations of ops with a type of types, concatenated
TextOf(ops, types) ==
  Flatten([k \in 1..Len(ops) |-> IF ops[k].Type \in types THEN ops[k].Text ELSE <<>>])

\* C17: the body printed for a container is its operations in order, the
\* text of each with '<' and '>' as entities, Equal text bare, Delete text
\* between <delete> and </delete>, Insert text between <insert> and
\* </insert>; the only raw '<' and '>' of the body are those of these tags.
C17_OnlyMarkersRaw ==
  report.printed =>
    /\ DOMAIN report.bodies = DOMAIN diffResult.ContainerDiffs
    /\ \A n \in DOMAIN report.bodies :
         LET ops == diffResult.ContainerDiffs[n] IN
         /\ TextOf(ops, {"equal", "delete"}) = joinParagraphs(Lookup(origMap, n))
         /\ TextOf(ops, {"equal", "insert"}) = joinParagraphs(Lookup(accMap, n))
         /\ report.bodies[n] =
              Flatten([k \in 1..Len(ops) |-> Marked(ops[k])]) \o <<"\n", "\n">>
         /\ OnlyTagsRaw(report.bodies[n], 1)

\* a body was printed for a container with equal, deleted and inserted text,
\* the inserted text holding a '<' and a '>'
C17_Witness ==
  /\ report.printed
  /\ \E n \in DOMAIN report.bodies :
       LET ops == diffResult.ContainerDiffs[n] IN
       /\ \E k \in 1..Len(ops) : ops[k].Type = "equal"
       /\ \E k \in 1..Len(ops) : ops[k].Type = "delete"
       /\ \E k \in 1..Len(ops) :
            /\ ops[k].Type = "insert"
            /\ \E i \in 1..Len(ops[k].Text) : ops[k].Text[i] = "<"
            /\ \E i \in 1..Len(ops[k].Text) : ops[k].Text[i] = ">"

(***************************************************************************)
(* Properties of the traceback, of the empty sequences and of the cache.   *)
(***************************************************************************)
\* the value of the table at (i, j): the length of a longest common
\* subsequence of the first i tokens of a and the first j tokens of b
TableValue(i, j) == LCSLength(SubSeq(a, 1, i), SubSeq(b, 1, j))

\* the unit steps of one appended operation follow the rule of the traceback
StepsByRule(op) ==
  CASE op.Tag = "e" ->
         /\ op.I2 - op.I1 = op.J2 - op.J1
         /\ \A t \in 0..(op.I2 - op.I1 - 1) : a[op.I2 - t] = b[op.J2 - t]
    [] op.Tag = "d" ->
         /\ op.J1 = op.J2
         /\ \A i \in (op.I1 + 1)..op.I2 :
              op.J2 > 0 =>
                /\ a[i] # b[op.J2]
                /\ TableValue(i - 1, op.J2) >= TableValue(i, op.J2 - 1)
    [] op.Tag = "i" ->
         /\ op.I1 = op.I2
         /\ \A j \in (op.J1 + 1)..op.J2 :
              op.I2 > 0 =>
                /\ a[op.I2] # b[j]
                /\ TableValue(op.I2 - 1, j) < TableValue(op.I2, j - 1)
    [] OTHER -> FALSE

C19_EmptySequences ==
  computed =>
    /\ (Len(a) = 0 /\ Len(b) = 0) => ret = <<>>
    /\ (Len(a) = 0 /\ Len(b) > 0) =>
         ret = <<[Tag |-> "i", I1 |-> 0, I2 |-> 0, J1 |-> 0, J2 |-> Len(b)]>>
    /\ (Len(a) > 0 /\ Len(b) = 0) =>
         ret = <<[Tag |-> "d", I1 |-> 0, I2 |-> Len(a), J1 |-> 0, J2 |-> 0]>>

\* GetOpCodes has returned for an empty a and a b of the greatest length
C19_Witness ==
  /\ computed
  /\ calls = 1
  /\ a = <<>>
  /\ Len(b) = MaxLen
  /\ Len(ret) = 1

\* C20: once the opcode list is computed, no call changes the cached list,
\* runs the comparison again or returns a list other than the one the first
\* call returned.
C20_ComputedOnce ==
  [][computed => /\ opcodes' = opcodes
                 /\ runs' = runs
                 /\ ret' = ret
                 /\ walk' = walk]_vars

\* the last of several calls on one instance has returned a list of opcodes
C20_Witness ==
  /\ computed
  /\ calls = MaxCalls
  /\ calls > 2
  /\ runs = 1
  /\ Len(ret) > 1

(***************************************************************************)
(* The template replacer (tpl.go).  A paragraph is a template: a sequence  *)
(* of items, each a character of literal text or an action.  Parse fails   *)
(* on a malformed action; Execute runs the items in order, writes their    *)
(* output and stops at the first action that returns an error.             *)
(***************************************************************************)
\* strings.Join(elems, sep)
RECURSIVE stringsJoinSep(_, _)
stringsJoinSep(elems, sep) ==
  IF elems = <<>> THEN <<>>
  ELSE IF Len(elems) = 1 THEN elems[1]
  ELSE elems[1] \o sep \o stringsJoinSep(Tail(elems), sep)

\* strings.Split(str, "\n"), cur being the line read so far
RECURSIVE stringsSplitLoop(_, _)
stringsSplitLoop(str, cur) ==
  IF str = <<>> THEN <<cur>>
  ELSE IF Head(str) = NL THEN <<cur>> \o stringsSplitLoop(Tail(str), <<>>)
  ELSE stringsSplitLoop(Tail(str), Append(cur, Head(str)))

stringsSplit(str) == stringsSplitLoop(str, <<>>)

\* the items of a template
Lit(c) == [k |-> "lit", c |-> c]
Fn(n) == [k |-> n]
JoinItem(args, delim) == [k |-> "join", args |-> args, delim |-> delim]

\* the lists and the delimiters handed to join
JoinArgs == {<<>>, << <<"a">> >>, << <<"a">>, <<"b">> >>}
Delims == {<<",">>, <<NL>>, <<>>}

\* "bad" is an action Parse rejects, "fail" one whose execution returns an
\* error
Items ==
  {Lit("a"), Fn("nl"), Fn("removeEmpty"), Fn("keepEmpty"), Fn("bad"), Fn("fail")}
    \cup {JoinItem(l, d) : l \in JoinArgs, d \in Delims}

Templates == SeqsUpTo(Items, MaxItems)

\* the function registered as join
joinFunction(args, delim) == stringsJoinSep(args, <<NL>>)

\* the switch left as it is by every function
switchUntouched(item, rm) == rm

\* the functions registered as removeEmpty and keepEmpty: the value of
\* REMOVE_EMPTY_PARAGRAPH after the item, rm being its value before
switch(item, rm) ==
  CASE item.k = "removeEmpty" -> TRUE
    [] item.k = "keepEmpty"   -> FALSE
    [] OTHER                  -> rm

\* what an item writes
written(item) ==
  CASE item.k = "lit"  -> <<item.c>>
    [] item.k = "nl"   -> <<NL>>
    [] item.k = "join" -> joinFunction(item.args, item.delim)
    [] OTHER           -> <<>>

\* tpl.Execute: rs is the output so far, rm the switch, js the calls of join
RECURSIVE Execute(_, _, _, _)
Execute(items, rs, rm, js) ==
  IF items = <<>> THEN [err |-> FALSE, rs |-> rs, rm |-> rm, js |-> js]
  ELSE IF Head(items).k = "fail" THEN [err |-> TRUE, rs |-> rs, rm |-> rm, js |-> js]
  ELSE Execute(Tail(items), rs \o written(Head(items)), switch(Head(items), rm),
               IF Head(items).k = "join"
               THEN Append(js, [args   |-> Head(items).args,
                                delim  |-> Head(items).delim,
                                result |-> written(Head(items))])
               ELSE js)

\* template.Parse: does it return an error
ParseFails(items) == \E i \in 1..Len(items) : items[i].k = "bad"

\* the paragraph as the string the replacer received, and the error message
Source(items) == [i \in 1..Len(items) |-> IF items[i].k = "lit" THEN items[i].c ELSE items[i]]
ErrMess == <<"$$$$$$ ERROR $$$$$">>

\* the list the replacer built by NewTplReplacer returns, x being what
\* Execute returned
returnedParas(para, x) ==
  IF x.err THEN <<Source(para), ErrMess>>
  ELSE IF x.rs = <<>> THEN <<>>
  ELSE stringsSplit(x.rs)

\* a call starts with any value of the switches, and a paragraph
TplInit ==
  /\ MatcherIdle
  /\ ExtractorIdle
  /\ RewriterIdle
  /\ DiffIdle
  /\ VERBOSE \in BOOLEAN
  /\ REMOVE_EMPTY_PARAGRAPH \in BOOLEAN
  /\ atStart = [VERBOSE |-> VERBOSE, REMOVE_EMPTY_PARAGRAPH |-> REMOVE_EMPTY_PARAGRAPH]
  /\ tplPara \in Templates
  /\ tplRet = NotReplaced
  /\ joinCalls = <<>>

\* the replacer on an empty paragraph, or on one Parse rejects
TplReplacerNoExecute ==
  /\ ~tplRet.returned
  /\ tplPara = <<>> \/ ParseFails(tplPara)
  /\ tplRet' = [returned |-> TRUE,
                paras |-> IF tplPara = <<>> THEN << <<>> >>
                          ELSE <<Source(tplPara), ErrMess>>]
  /\ UNCHANGED <<VERBOSE, REMOVE_EMPTY_PARAGRAPH, atStart, tplPara, joinCalls,
                 mvars, xvars, rvars, dvars>>

\* the replacer on a paragraph it executes
TplReplacerExecute ==
  /\ ~tplRet.returned
  /\ tplPara # <<>> /\ ~ParseFails(tplPara)
  /\ LET x == Execute(tplPara, <<>>, REMOVE_EMPTY_PARAGRAPH, joinCalls)
     IN /\ REMOVE_EMPTY_PARAGRAPH' = x.rm
        /\ joinCalls' = x.js
        /\ tplRet' = [returned |-> TRUE, paras |-> returnedParas(tplPara, x)]
  /\ UNCHANGED <<VERBOSE, atStart, tplPara, mvars, xvars, rvars, dvars>>

TplNext == TplReplacerNoExecute \/ TplReplacerExecute

TplSpec == TplInit /\ [][TplNext]_vars

\* the items Execute ran: those before the first that fails
Executed(items) ==
  {i \in 1..Len(items) : \A j \in 1..i : items[j].k # "fail"}

\* the items that call removeEmpty or keepEmpty, among those executed
Switches(items) ==
  IF ParseFails(items) THEN {}
  ELSE {i \in Executed(items) : items[i].k \in {"removeEmpty", "keepEmpty"}}

\* C21, as stated: during a call VERBOSE and REMOVE_EMPTY_PARAGRAPH keep the
\* value they had when the call started, also with the template replacer.
C21_SwitchesReadOnly ==
  tplRet.returned =>
    /\ VERBOSE = atStart.VERBOSE
    /\ REMOVE_EMPTY_PARAGRAPH = atStart.REMOVE_EMPTY_PARAGRAPH

\* C21, amended: VERBOSE keeps its value; REMOVE_EMPTY_PARAGRAPH keeps its
\* value when the template executed no removeEmpty and no keepEmpty, and
\* otherwise holds what the last of them executed set: true for removeEmpty,
\* false for keepEmpty.
C21_SwitchSetByTemplate ==
  tplRet.returned =>
    /\ VERBOSE = atStart.VERBOSE
    /\ Switches(tplPara) = {} =>
         REMOVE_EMPTY_PARAGRAPH = atStart.REMOVE_EMPTY_PARAGRAPH
    /\ Switches(tplPara) # {} =>
         LET last == CHOOSE i \in Switches(tplPara) :
                       \A j \in Switches(tplPara) : j <= i
         IN REMOVE_EMPTY_PARAGRAPH = (tplPara[last].k = "removeEmpty")

\* a template with keepEmpty was executed in a call that started with the
\* switch set, and left it unset
C21_Witness ==
  /\ tplRet.returned
  /\ atStart.REMOVE_EMPTY_PARAGRAPH
  /\ ~REMOVE_EMPTY_PARAGRAPH
  /\ \E i \in 1..Len(tplPara) : tplPara[i].k = "keepEmpty"

\* C22: every call of join returned the strings of its list with its
\* delimiter between consecutive ones.
C22_JoinUsesDelimiter ==
  \A k \in 1..Len(joinCalls) :
    joinCalls[k].result = stringsJoinSep(joinCalls[k].args, joinCalls[k].delim)

(***************************************************************************)
(* Properties of the opcode list.                                          *)
(***************************************************************************)
\* C23: in the opcode list computed for a container, Equal and non-Equal
\* opcodes strictly alternate (no two consecutive opcodes are both Equal and
\* no two are both non-Equal), and no two adjacent operations of the
\* container have the same type.
C23_Alternate ==
  diffResult.returned =>
    \A n \in DOMAIN trace :
      LET ops == trace[n].opcodes
          operations == trace[n].Operations
      IN /\ \A k \in 1..(Len(ops) - 1) : (ops[k].Tag = "e") # (ops[k + 1].Tag = "e")
         /\ \A k \in 1..(Len(operations) - 1) :
              operations[k].Type # operations[k + 1].Type

\* a container compared into equal text, a Replace and equal text again
C23_Witness ==
  /\ diffResult.returned
  /\ \E n \in DOMAIN trace :
       /\ Len(trace[n].opcodes) >= 3
       /\ \E k \in 2..(Len(trace[n].opcodes) - 1) : trace[n].opcodes[k].Tag = "r"
       /\ Len(trace[n].Operations) >= 4

\* C24: every opcode GetOpCodes returns is well formed: its ranges lie in
\* the sequences and do not run backwards; an Equal opcode covers as many
\* tokens of a as of b, at least one, and the tokens it pairs are the same;
\* a Delete covers tokens of a only, an Insert tokens of b only, a Replace
\* tokens of both; no opcode has both ranges empty.
C24_WellFormed ==
  computed =>
    \A k \in 1..Len(ret) :
      LET op == ret[k] IN
      /\ 0 <= op.I1 /\ op.I1 <= op.I2 /\ op.I2 <= Len(a)
      /\ 0 <= op.J1 /\ op.J1 <= op.J2 /\ op.J2 <= Len(b)
      /\ op.I1 < op.I2 \/ op.J1 < op.J2
      /\ op.Tag \in {"e", "d", "i", "r"}
      /\ op.Tag = "e" =>
           /\ op.I2 - op.I1 = op.J2 - op.J1
           /\ op.I2 - op.I1 >= 1
           /\ \A t \in 1..(op.I2 - op.I1) : a[op.I1 + t] = b[op.J1 + t]
      /\ op.Tag = "d" => op.I1 < op.I2 /\ op.J1 = op.J2
      /\ op.Tag = "i" => op.I1 = op.I2 /\ op.J1 < op.J2
      /\ op.Tag = "r" => op.I1 < op.I2 /\ op.J1 < op.J2

\* a list with an Equal opcode, a Replace and an Insert or a Delete
C24_Witness ==
  /\ computed
  /\ \E k \in 1..Len(ret) : ret[k].Tag = "e"
  /\ \E k \in 1..Len(ret) : ret[k].Tag = "r"
  /\ \E k \in 1..Len(ret) : ret[k].Tag \in {"d", "i"}

\* s is a non-empty proper prefix of t
ProperPrefix(s, t) == 0 < Len(s) /\ Len(s) < Len(t) /\ SubSeq(t, 1, Len(s)) = s

\* the last token of s occurs in t after the first Len(s) tokens
LastInTail(s, t) == \E j \in (Len(s) + 1)..Len(t) : t[j] = s[Len(s)]

\* the two opcodes of the claim: the shared prefix, then the tail
PrefixThenInsert ==
  ret = <<[Tag |-> "e", I1 |-> 0, I2 |-> Len(a), J1 |-> 0, J2 |-> Len(a)],
          [Tag |-> "i", I1 |-> Len(a), I2 |-> Len(a), J1 |-> Len(a), J2 |-> Len(b)]>>
PrefixThenDelete ==
  ret = <<[Tag |-> "e", I1 |-> 0, I2 |-> Len(b), J1 |-> 0, J2 |-> Len(b)],
          [Tag |-> "d", I1 |-> Len(b), I2 |-> Len(a), J1 |-> Len(b), J2 |-> Len(b)]>>

\* C25, as stated: when one sequence is a non-empty proper prefix of the
\* other, the list is an Equal opcode covering the shared prefix followed by
\* one Insert (or one Delete) covering the tail of the longer sequence.
C25_PrefixTwoOpcodes ==
  computed =>
    /\ ProperPrefix(a, b) => PrefixThenInsert
    /\ ProperPrefix(b, a) => PrefixThenDelete

\* C25, amended: the same, when the last token of the shorter sequence does
\* not occur again in the tail of the longer one; when it does, the list is
\* another one.
C25_PrefixNoRepeat ==
  computed =>
    /\ ProperPrefix(a, b) => (PrefixThenInsert <=> ~LastInTail(a, b))
    /\ ProperPrefix(b, a) => (PrefixThenDelete <=> ~LastInTail(b, a))

\* a is two tokens, b is a with one more token, another than the last of a
C25_Witness ==
  /\ computed
  /\ Len(a) = 2
  /\ ProperPrefix(a, b)
  /\ ~LastInTail(a, b)
  /\ Len(ret) = 2

(***************************************************************************)
(* Properties of the comparison of containers.                             *)
(***************************************************************************)
\* the paragraph list a mapping holds for a name, empty for a missing name
ListOf(m, n) == IF n \in DOMAIN m THEN m[n] ELSE <<>>

\* the text of a paragraph list: its paragraphs, a newline between two
NewlineJoined(l) ==
  Flatten([k \in 1..(2 * Len(l) - 1) |->
             IF k % 2 = 1 THEN l[(k + 1) \div 2] ELSE <<NL>>])

\* the containers Diff reports as changed are the set cs, and it counts them
ChangedAre(cs) ==
  /\ DOMAIN diffResult.ContainerDiffs = cs
  /\ diffResult.Summary.ChangedContainers = Cardinality(cs)

\* C26, as stated: a container is reported as changed (in ContainerDiffs and
\* counted in ChangedContainers) if and only if its original and accepted
\* paragraph lists differ, a missing container having the empty list.
C26_ChangedIffListsDiffer ==
  diffResult.returned =>
    ChangedAre({n \in DOMAIN origMap \cup DOMAIN accMap :
                  ListOf(origMap, n) # ListOf(accMap, n)})

\* C26, amended: a container is reported as changed if and only if the
\* newline-joined texts of its two paragraph lists differ; lists that differ
\* and have the same text are not reported.
C26_ChangedIffTextsDiffer ==
  diffResult.returned =>
    ChangedAre({n \in DOMAIN origMap \cup DOMAIN accMap :
                  NewlineJoined(ListOf(origMap, n)) # NewlineJoined(ListOf(accMap, n))})

\* a container missing from the accepted mapping is reported as changed, and
\* another one with the same paragraph in both mappings is not
C26_Witness ==
  /\ diffResult.returned
  /\ \E n \in DOMAIN origMap \ DOMAIN accMap :
       origMap[n] # <<>> /\ n \in DOMAIN diffResult.ContainerDiffs
  /\ \E n \in DOMAIN origMap \cap DOMAIN accMap :
       /\ origMap[n] # <<>>
       /\ origMap[n] = accMap[n]
       /\ n \notin DOMAIN diffResult.ContainerDiffs
  /\ diffResult.Summary.ChangedContainers = 1

\* the Text of the operations of the types, one after the other
RECURSIVE Concatenated(_, _)
Concatenated(ops, types) ==
  IF ops = <<>> THEN <<>>
  ELSE (IF Head(ops).Type \in types THEN Head(ops).Text ELSE <<>>)
         \o Concatenated(Tail(ops), types)

\* C27: for every container Diff processes, the Text of its equal and delete
\* operations, concatenated in order, is the newline-joined original
\* paragraphs, and the Text of its equal and insert operations is the
\* newline-joined accepted paragraphs.
C27_TextsRebuilt ==
  diffResult.returned =>
    \A n \in DOMAIN trace :
      /\ Concatenated(trace[n].Operations, {"equal", "delete"})
           = NewlineJoined(ListOf(origMap, n))
      /\ Concatenated(trace[n].Operations, {"equal", "insert"})
           = NewlineJoined(ListOf(accMap, n))

\* a container of two paragraphs on one side, compared into operations of
\* the three types, one of them holding more than one word
C27_Witness ==
  /\ diffResult.returned
  /\ \E n \in DOMAIN trace :
       LET ops == trace[n].Operations IN
       /\ Len(ListOf(origMap, n)) = 2 \/ Len(ListOf(accMap, n)) = 2
       /\ \A t \in {"equal", "delete", "insert"} : \E k \in 1..Len(ops) : ops[k].Type = t
       /\ \E k \in 1..Len(trace[n].opcodes) :
            LET op == trace[n].opcodes[k] IN op.I2 - op.I1 > 1 \/ op.J2 - op.J1 > 1

(***************************************************************************)
(* Properties of the position markers of the rewriter.                     *)
(***************************************************************************)
\* the entry into insert is the one made by processRuns, not a recursive one
FirstEntry == paras = log[Len(log)].replaced

\* C28: at each entry into insert, the recursive entries included,
\* 1 <= curPara < firstRunText < len(res), res[curPara] is the segment of the
\* start tag of the paragraph copy being filled, res[firstRunText] is the
\* placeholder of that copy, the segment that follows the one of the copy's
\* first text start tag (empty at the first entry, holding the previous
\* reply's text at a recursive one), and the empty segment res[0] is in
\* place whatever was discarded.
C28_MarkersValid ==
  /\ res # <<>> /\ res[1] = <<>>
  /\ pc = "insert" =>
       /\ 1 <= curPara /\ curPara < firstRunText /\ firstRunText < Len(res)
       /\ res[curPara + 1] = <<S("p")>>
       /\ res[firstRunText] = <<S("t")>>
       /\ \A k \in (curPara + 2)..(firstRunText - 1) : res[k] # <<S("t")>>
       /\ IF FirstEntry
          THEN res[firstRunText + 1] = <<>>
          ELSE \E i \in 1..MaxReplies : res[firstRunText + 1] = xmlEscape(ReplyText(i))

\* a recursive entry into insert for the second paragraph of the container,
\* the first one having been discarded
C28_Witness ==
  /\ pc = "insert"
  /\ ~FirstEntry
  /\ Len(log) = 2
  /\ log[1].replaced = <<>>
  /\ curPara > 1

(***************************************************************************)
(* Text outside insertion wrappers, ORIGINAL reading.                      *)
(***************************************************************************)
\* the container with its deleted-text elements renamed, so that only the
\* ordinary text nodes are read
OrdinaryOnly(bs) ==
  [i \in 1..Len(bs) |->
     IF bs[i].k \in {"S", "E"} /\ bs[i].n = "delText"
     THEN [bs[i] EXCEPT !.n = "other"] ELSE bs[i]]

\* per paragraph, the text of the ordinary text nodes that no insertion
\* wrapper encloses
OutsideInsertions(bs) == Reading("ORIGINAL", OrdinaryOnly(bs))

\* C29: in ORIGINAL mode every ordinary text node that no insertion wrapper
\* encloses contributes its text to its paragraph, a text node that follows
\* a closed insertion wrapper in the same run included: the texts of these
\* nodes are found, in order, in the paragraph's text.
C29_TextOutsideInsertions ==
  (WellFormed(input) /\ original # NotRun) =>
    /\ original.err = "nil"
    /\ Len(original.res) = Len(OutsideInsertions(input))
    /\ \A k \in 1..Len(original.res) :
         IsSubseq(OutsideInsertions(input)[k], original.res[k])

(***************************************************************************)
(* Successive calls of PrettyPrint.                                        *)
(***************************************************************************)
\* C30: PrettyPrint is deterministic: a call on a DiffResult that was
\* printed before returns the same report, the sections of the changed
\* containers in the same order.
C30_SameReport ==
  [][(report.printed /\ report'.printed) =>
       /\ report'.header = report.header
       /\ report'.bodies = report.bodies
       /\ report'.order = report.order]_vars

====
